---------------------------- MODULE Spec2Model ----------------------------
(***************************************************************************)
(* Knessight-Utils: the work-item state machine (JobTracker), the batch    *)
(* ledger and polling loop (BatchManager) and the filter / score stages    *)
(* that drive them.                                                        *)
(*                                                                         *)
(* Python dicts are functions whose DOMAIN is the set of keys present;     *)
(* a JSON file is modelled by the value last dumped into it.  Timestamps   *)
(* (datetime.now().isoformat()) are abstracted to the single token Now:    *)
(* only their presence is observable in the model.                         *)
(***************************************************************************)
EXTENDS Integers, Sequences, FiniteSets, TLC

VARIABLES
    status,        \* JobTracker._status          (job_tracker.py:28)
    statusFile,    \* contents of job_status.json (job_tracker.py:25)
    damaged,       \* files a failed write left truncated
    faults,        \* I/O errors injected so far
    lastOp,        \* the operation that returned last, and how
    reported,      \* history: _status when an operation last returned normally
    service,       \* the batch execution service: job id -> job
    batch_jobs,    \* BatchManager._batch_jobs        (batch_manager.py:49)
    batch_jobs_file,       \* contents of batch_jobs.json
    costs,         \* BatchManager._costs             (batch_manager.py:50)
    costs_file,            \* contents of costs.json
    failed_speeches,       \* BatchManager._failed_speeches (batch_manager.py:51)
    failed_speeches_file,  \* contents of failed_speeches.json
    poll,          \* the frame of poll_batches: its locals and its position
    returned,      \* what the last BatchManager call returned
    run,           \* the frame of the stage run in progress (cli.py filter, score)
    filtered,      \* data/intermediate/{person_id}_{topic}_filtered.csv
    client_data,   \* data/client_data: scored csv and aggregation files
    filterDone     \* history: pairs filter-completed and not reset to pending since

trackerVars == <<status, statusFile, reported>>
ledgerVars == <<batch_jobs, batch_jobs_file, costs, costs_file,
                failed_speeches, failed_speeches_file>>
managerVars == <<service, batch_jobs, batch_jobs_file, costs, costs_file,
                 failed_speeches, failed_speeches_file, poll, returned>>
vars == <<status, statusFile, damaged, faults, lastOp, reported,
          service, batch_jobs, batch_jobs_file, costs, costs_file,
          failed_speeches, failed_speeches_file, poll, returned,
          run, filtered, client_data, filterDone>>
runVars == <<run, filtered, client_data, filterDone>>

-----------------------------------------------------------------------------
(* Bounds and inputs *)

MaxPairs == 2          \* longest list of pairs handed to one call
MaxBatchId == 1        \* batch ids the tracker operations are called with
MaxFaults == 1         \* I/O errors injected in one behaviour
MaxJobs == 2           \* jobs created at the service in one behaviour
MaxRequests == 2       \* requests in one batch
MaxAttempts == 1       \* largest max_attempts and retry_attempt tried
MaxDead == 1           \* entries of the failed-request ledger

Persons == {1}

\* a topic name is the sequence of its characters
TopicA == <<"A">>
TopicB == <<"B">>
Topics == {TopicA, TopicB}
Pairs == Persons \X Topics

\* the two stages
Phases == {"filter", "score"}

Now == "t"

Range(s) == {s[i] : i \in 1..Len(s)}

SeqsUpTo(S, n) == UNION {[1..m -> S] : m \in 0..n}

PairLists == SeqsUpTo(Pairs, MaxPairs)

BatchIdLists == {<<b>> : b \in 1..MaxBatchId}

-----------------------------------------------------------------------------
(* JobTracker *)

\* f"{person_id}_{topic}": person_id is an int, so its decimal form holds no
\* "_" and the key splits back at its first "_": the key is the pair.
make_key(person_id, topic) == <<person_id, topic>>

\* dict.get(key, default)
Get(d, k, default) == IF k \in DOMAIN d THEN d[k] ELSE default

\* d[k] = v on a dict
Put(d, k, v) == [x \in DOMAIN d \cup {k} |-> IF x = k THEN v ELSE d[x]]

\* a pair with no entry is dropped for every phase
RECURSIVE get_pending_pairs_skips_new(_, _, _)
get_pending_pairs_skips_new(st, phase, all_pairs) ==
    IF all_pairs = <<>> THEN <<>>
    ELSE LET pair == Head(all_pairs)
             key == make_key(pair[1], pair[2])
             rest == get_pending_pairs_skips_new(st, phase, Tail(all_pairs))
         IN  IF key \notin DOMAIN st
             THEN rest
             ELSE IF phase = "filter" /\ st[key].status = "pending"
                  THEN <<pair>> \o rest
                  ELSE IF phase = "score" /\ st[key].status = "filter_complete"
                       THEN <<pair>> \o rest
                       ELSE rest

\* the score phase admitting every pair that is not score_complete
RECURSIVE get_pending_pairs_unordered(_, _, _)
get_pending_pairs_unordered(st, phase, all_pairs) ==
    IF all_pairs = <<>> THEN <<>>
    ELSE LET pair == Head(all_pairs)
             key == make_key(pair[1], pair[2])
             rest == get_pending_pairs_unordered(st, phase, Tail(all_pairs))
         IN  IF key \notin DOMAIN st
             THEN <<pair>> \o rest
             ELSE IF phase = "filter" /\ st[key].status = "pending"
                  THEN <<pair>> \o rest
                  ELSE IF phase = "score" /\ st[key].status # "score_complete"
                       THEN <<pair>> \o rest
                       ELSE rest

RECURSIVE get_pending_pairs(_, _, _)
get_pending_pairs(st, phase, all_pairs) ==
    IF all_pairs = <<>> THEN <<>>
    ELSE LET pair == Head(all_pairs)
             key == make_key(pair[1], pair[2])
             rest == get_pending_pairs(st, phase, Tail(all_pairs))
         IN  IF key \notin DOMAIN st
             THEN IF phase = "filter" THEN <<pair>> \o rest ELSE rest
             ELSE IF phase = "filter" /\ st[key].status = "pending"
                  THEN <<pair>> \o rest
                  ELSE IF phase = "score" /\ st[key].status = "filter_complete"
                       THEN <<pair>> \o rest
                       ELSE rest

mark_filter_complete(st, person_id, topic, batch_job_ids) ==
    LET key == make_key(person_id, topic)
    IN  Put(st, key,
            [status |-> "filter_complete",
             filter_batch_job_ids |-> batch_job_ids,
             filter_completed_at |-> Now,
             score_batch_job_ids |->
                 Get(Get(st, key, <<>>), "score_batch_job_ids", <<>>)])

mark_score_complete(st, person_id, topic, batch_job_ids) ==
    LET key == make_key(person_id, topic)
        st1 == IF key \notin DOMAIN st
               THEN Put(st, key, [status |-> "pending"])
               ELSE st
        e1 == Put(st1[key], "status", "score_complete")
        e2 == Put(e1, "score_batch_job_ids", batch_job_ids)
        e3 == Put(e2, "score_completed_at", Now)
    IN  Put(st1, key, e3)

\* phase = "score" without the test for score_complete
reset_one_unguarded(st, pair, phase) ==
    LET key == make_key(pair[1], pair[2])
    IN  IF phase = "filter" \/ phase = "None"
        THEN Put(st, key, [status |-> "pending"])
        ELSE IF phase = "score"
             THEN IF key \in DOMAIN st
                  THEN Put(st, key, Put(st[key], "status", "filter_complete"))
                  ELSE st
             ELSE st

\* a reset that drops the entry of the pair instead of overwriting it
reset_one_deleting(st, pair, phase) ==
    LET key == make_key(pair[1], pair[2])
    IN  IF phase = "filter" \/ phase = "None"
        THEN [k \in DOMAIN st \ {key} |-> st[k]]
        ELSE IF phase = "score"
             THEN IF key \in DOMAIN st /\ st[key].status = "score_complete"
                  THEN Put(st, key, Put(st[key], "status", "filter_complete"))
                  ELSE st
             ELSE st

\* one iteration of the loop of reset_pairs
reset_one(st, pair, phase) ==
    LET key == make_key(pair[1], pair[2])
    IN  IF phase = "filter" \/ phase = "None"
        THEN Put(st, key, [status |-> "pending"])
        ELSE IF phase = "score"
             THEN IF key \in DOMAIN st /\ st[key].status = "score_complete"
                  THEN Put(st, key, Put(st[key], "status", "filter_complete"))
                  ELSE st
             ELSE st

RECURSIVE reset_pairs(_, _, _)
reset_pairs(st, pairs, phase) ==
    IF pairs = <<>> THEN st
    ELSE reset_pairs(reset_one(st, Head(pairs), phase), Tail(pairs), phase)

\* a write that is never made
save_skipped(file, value, ok) == file

\* json.dump into a file opened with "w": the new content on success; on an
\* I/O error the file keeps its content (open failed) or is left truncated.
save(file, value, ok) == IF ok THEN value ELSE file

\* get_statistics()["total"] etc. are not needed by the model.

StateOf(st, pair) ==
    IF make_key(pair[1], pair[2]) \in DOMAIN st
    THEN st[make_key(pair[1], pair[2])].status
    ELSE "none"

-----------------------------------------------------------------------------
(* The JobTracker operations as steps of a caller that may call them in any
   order.  ok = FALSE is an I/O error raised by _save_status. *)

EmptyDict == [x \in {} |-> 0]

Op(name, ok) == [op |-> name, ok |-> ok]

\* whether this operation's write may (ok) or does not (~ok) succeed
Outcomes == IF faults < MaxFaults THEN BOOLEAN ELSE {TRUE}

\* what a write of the file `name` leaves behind besides its content: a
\* failed write may have truncated the file (it is opened with "w")
WriteOutcome(name, ok) ==
    /\ faults' = IF ok THEN faults ELSE faults + 1
    /\ IF ok THEN damaged' = damaged \ {name}
             ELSE \E trunc \in BOOLEAN :
                    damaged' = IF trunc THEN damaged \cup {name} ELSE damaged

\* the effect of _save_status on the file, and what the caller learns
SaveStatus(st, ok) ==
    /\ statusFile' = save(statusFile, st, ok)
    /\ reported' = IF ok THEN st ELSE reported
    /\ WriteOutcome("status", ok)

MarkFilterComplete(person_id, topic, batch_job_ids, ok) ==
    /\ status' = mark_filter_complete(status, person_id, topic, batch_job_ids)
    /\ SaveStatus(status', ok)
    /\ lastOp' = Op("mark_filter_complete", ok)

MarkScoreComplete(person_id, topic, batch_job_ids, ok) ==
    /\ status' = mark_score_complete(status, person_id, topic, batch_job_ids)
    /\ SaveStatus(status', ok)
    /\ lastOp' = Op("mark_score_complete", ok)

ResetPairs(pairs, phase, ok) ==
    /\ status' = reset_pairs(status, pairs, phase)
    /\ SaveStatus(status', ok)
    /\ lastOp' = Op("reset_pairs", ok)

\* JobTracker.__init__ in a new process: _load_status
Restart ==
    /\ "status" \notin damaged
    /\ status' = statusFile
    /\ lastOp' = Op("restart", TRUE)
    /\ UNCHANGED <<statusFile, damaged, faults, reported>>

\* BatchManager.__init__ with no ledger files, no job at the service
ManagerIdle ==
    /\ service = EmptyDict
    /\ batch_jobs = EmptyDict
    /\ batch_jobs_file = EmptyDict
    /\ costs = EmptyDict
    /\ costs_file = EmptyDict
    /\ failed_speeches = <<>>
    /\ failed_speeches_file = <<>>
    /\ poll = [pc |-> "idle"]
    /\ returned = <<>>

\* no stage has run: no artifact exists
RunIdle ==
    /\ run = [pc |-> "idle", n |-> 0]
    /\ filtered = EmptyDict
    /\ client_data = EmptyDict
    /\ filterDone = [mem |-> {}, file |-> {}]

TrackerInit ==
    /\ status = EmptyDict
    /\ statusFile = EmptyDict
    /\ damaged = {}
    /\ faults = 0
    /\ lastOp = Op("init", TRUE)
    /\ reported = EmptyDict
    /\ ManagerIdle
    /\ RunIdle

TrackerNext ==
    /\ UNCHANGED managerVars
    /\ UNCHANGED runVars
    /\ \/ \E p \in Persons, t \in Topics, ids \in BatchIdLists, ok \in Outcomes :
             MarkFilterComplete(p, t, ids, ok)
       \/ \E p \in Persons, t \in Topics, ids \in BatchIdLists, ok \in Outcomes :
             MarkScoreComplete(p, t, ids, ok)
       \/ \E pairs \in PairLists, phase \in {"filter", "score", "None"},
              ok \in Outcomes :
             ResetPairs(pairs, phase, ok)
       \/ Restart

TrackerSpec == TrackerInit /\ [][TrackerNext]_vars

-----------------------------------------------------------------------------
(* BatchManager and the batch execution service *)

\* str(person_id) and int(...) back
str(n) == [str |-> n]
int(x) == x.str

\* sep.join(parts) on strings given as character sequences
RECURSIVE join(_, _)
join(sep, parts) ==
    IF parts = <<>> THEN <<>>
    ELSE IF Len(parts) = 1 THEN parts[1]
         ELSE parts[1] \o <<sep>> \o join(sep, Tail(parts))

\* s.split(sep)
RECURSIVE split(_, _)
split(str_, sep) ==
    IF \A i \in 1..Len(str_) : str_[i] # sep THEN <<str_>>
    ELSE LET i == CHOOSE j \in 1..Len(str_) :
                     str_[j] = sep /\ \A k \in 1..(j - 1) : str_[k] # sep
         IN  <<SubSeq(str_, 1, i - 1)>> \o split(SubSeq(str_, i + 1, Len(str_)), sep)

\* the terminal statuses with `expired` forgotten
TerminalStatusesKnown == {"completed", "failed", "cancelled"}

\* statuses of a job at the service; the code tests for the terminal ones
TerminalStatuses == {"completed", "failed", "expired", "cancelled"}
ServiceStatuses == {"validating", "in_progress"} \cup TerminalStatuses

\* what the service answers to one request of a completed job: a response
\* with status 200 whose content is the JSON asked for ("ok"), a response with
\* another status ("http_error"), a response with status 200 whose content
\* is not JSON ("bad_json"), or one whose content is JSON of another shape,
\* such as a list or a number where an object is expected ("bad_shape")
ResultKinds == {"ok", "http_error", "bad_json", "bad_shape"}

\* the result lists of a completed job: one result per request, correlated
\* with it by custom_id only, in any order
Answers(requests) ==
    {results \in [1..Len(requests) ->
                     [custom_id : {requests[i].custom_id : i \in 1..Len(requests)},
                      kind : ResultKinds]] :
        \E p \in [1..Len(requests) -> 1..Len(requests)] :
           /\ \A i, j \in 1..Len(requests) : i # j => p[i] # p[j]
           /\ \A i \in 1..Len(requests) :
                 results[i].custom_id = requests[p[i]].custom_id}

\* batch.request_counts
request_counts(job) ==
    [total |-> Len(job.requests),
     completed |-> Cardinality({i \in 1..Len(job.results) :
                                  job.results[i].kind # "http_error"}),
     failed |-> Cardinality({i \in 1..Len(job.results) :
                               job.results[i].kind = "http_error"})]

\* ids are handed out by the service and never reused
NextBatchId == Cardinality(DOMAIN service) + 1

\* list.remove(x): the list without the first occurrence of x
remove(list, x) ==
    LET i == CHOOSE j \in 1..Len(list) :
                 list[j] = x /\ \A k \in 1..(j - 1) : list[k] # x
    IN  SubSeq(list, 1, i - 1) \o SubSeq(list, i + 1, Len(list))

\* the entry with another status literal
tracked_entry_created(metadata, requests, file_id) ==
    Put(Put(Put(Put(metadata, "submitted_at", Now),
                "status", "created"),
            "request_count", Len(requests)),
        "file_id", file_id)

\* {**metadata, "submitted_at": ..., "status": "submitted", ...}
tracked_entry(metadata, requests, file_id) ==
    Put(Put(Put(Put(metadata, "submitted_at", Now),
                "status", "submitted"),
            "request_count", Len(requests)),
        "file_id", file_id)

\* the process ends and the next one loads its state from the files
ProcessRestarts ==
    /\ status' = statusFile
    /\ batch_jobs' = batch_jobs_file
    /\ costs' = costs_file
    /\ failed_speeches' = failed_speeches_file
    /\ poll' = [pc |-> "idle"]
    /\ returned' = <<>>
    /\ UNCHANGED <<statusFile, reported, batch_jobs_file, costs_file,
                   failed_speeches_file, damaged, faults>>

\* client.files.create and client.batches.create: one new job at the service
batches_create(requests) ==
    Put(service, NextBatchId,
        [status |-> "validating", requests |-> requests, results |-> <<>>])

\* create_batch saving the ledger before it tracks the new job
create_batch_saves_first(requests, metadata, ok) ==
    LET batch_id == NextBatchId
    IN  /\ service' = batches_create(requests)
        /\ batch_jobs' = Put(batch_jobs, batch_id,
                             tracked_entry(metadata, requests, batch_id))
        /\ batch_jobs_file' = save(batch_jobs_file, batch_jobs, ok)
        /\ WriteOutcome("batch_jobs", ok)
        /\ returned' = IF ok THEN <<batch_id>> ELSE <<>>
        /\ UNCHANGED <<costs, costs_file, failed_speeches, failed_speeches_file>>

\* create_batch: upload the request file, create the job, track it, save the
\* ledger, return the id.  ok = FALSE: _save_batch_jobs raises.
create_batch(requests, metadata, ok) ==
    LET batch_id == NextBatchId
    IN  /\ service' = batches_create(requests)
        /\ batch_jobs' = Put(batch_jobs, batch_id,
                             tracked_entry(metadata, requests, batch_id))
        /\ batch_jobs_file' = save(batch_jobs_file, batch_jobs', ok)
        /\ WriteOutcome("batch_jobs", ok)
        /\ returned' = IF ok THEN <<batch_id>> ELSE <<>>
        /\ UNCHANGED <<costs, costs_file, failed_speeches, failed_speeches_file>>

failed_entries(failed_requests, metadata) ==
    [i \in 1..Len(failed_requests) |->
        [request |-> failed_requests[i], metadata |-> metadata,
         timestamp |-> Now]]

\* metadata that a retry leaves as it found it
retry_metadata_unchanged(metadata, max_attempts) == metadata

\* the caller's metadata dict after retry_failed_requests: it is changed in
\* place (metadata["retry_attempt"] = attempt + 1) before create_batch is called
retry_metadata(metadata, max_attempts) ==
    LET attempt == Get(metadata, "retry_attempt", 0)
    IN  IF attempt >= max_attempts THEN metadata
        ELSE Put(metadata, "retry_attempt", attempt + 1)

\* a retry that resubmits with the metadata as it was given
retry_failed_requests_same_attempt(failed_requests, metadata, max_attempts, ok) ==
    LET attempt == Get(metadata, "retry_attempt", 0)
    IN  IF attempt >= max_attempts
        THEN /\ failed_speeches' =
                   failed_speeches \o failed_entries(failed_requests, metadata)
             /\ failed_speeches_file' =
                   save(failed_speeches_file, failed_speeches', ok)
             /\ WriteOutcome("failed_speeches", ok)
             /\ returned' = <<>>
             /\ UNCHANGED <<service, batch_jobs, batch_jobs_file, costs,
                            costs_file>>
        ELSE create_batch(failed_requests, metadata, ok)

\* retry_failed_requests
\* the give-up test written with > in place of >=
retry_failed_requests_one_more(failed_requests, metadata, max_attempts, ok) ==
    LET attempt == Get(metadata, "retry_attempt", 0)
    IN  IF attempt > max_attempts
        THEN /\ failed_speeches' =
                   failed_speeches \o failed_entries(failed_requests, metadata)
             /\ failed_speeches_file' =
                   save(failed_speeches_file, failed_speeches', ok)
             /\ WriteOutcome("failed_speeches", ok)
             /\ returned' = <<>>
             /\ UNCHANGED <<service, batch_jobs, batch_jobs_file, costs,
                            costs_file>>
        ELSE create_batch(failed_requests,
                          retry_metadata(metadata, max_attempts), ok)

retry_failed_requests(failed_requests, metadata, max_attempts, ok) ==
    LET attempt == Get(metadata, "retry_attempt", 0)
    IN  IF attempt >= max_attempts
        THEN /\ failed_speeches' =
                   failed_speeches \o failed_entries(failed_requests, metadata)
             /\ failed_speeches_file' =
                   save(failed_speeches_file, failed_speeches', ok)
             /\ WriteOutcome("failed_speeches", ok)
             /\ returned' = <<>>
             /\ UNCHANGED <<service, batch_jobs, batch_jobs_file, costs,
                            costs_file>>
        ELSE create_batch(failed_requests,
                          retry_metadata(metadata, max_attempts), ok)

\* _track_batch_cost: the entry written for a completed job
cost_entry(jobs, batch_id, batch) ==
    [timestamp |-> Now,
     requests |-> request_counts(batch),
     metadata |-> Get(jobs, batch_id, EmptyDict)]

\* poll_batches up to its loop: completed = {}, remaining = list(batch_ids),
\* `order` is the insertion order of the keys of `completed`,
\* last_full_poll = 0, so that the first round is a full poll.  With nothing
\* to poll the loop is not entered and {} is returned.
poll_start(batch_ids) ==
    IF batch_ids = <<>>
    THEN [pc |-> "returned", batch_ids |-> batch_ids, remaining |-> <<>>,
          completed |-> EmptyDict, order |-> <<>>, todo |-> <<>>,
          should_full_poll |-> FALSE]
    ELSE [pc |-> "round", batch_ids |-> batch_ids, remaining |-> batch_ids,
          completed |-> EmptyDict, order |-> <<>>, todo |-> batch_ids,
          should_full_poll |-> TRUE]

\* "Update tracking": the ledger entry takes the status the service reported
track_status(jobs, batch_id, status_) ==
    IF batch_id \in DOMAIN jobs
    THEN Put(jobs, batch_id, Put(jobs[batch_id], "status", status_))
    ELSE jobs

track_completed_at(jobs, batch_id) ==
    IF batch_id \in DOMAIN jobs
    THEN Put(jobs, batch_id, Put(jobs[batch_id], "completed_at", Now))
    ELSE jobs

\* every terminal status taken as one that has a cost to record
tracks_cost_any(status_) == TRUE

\* "Track costs if completed"
tracks_cost(status_) == status_ = "completed"

\* one iteration of "for batch_id in list(remaining)"; the ids polled are
\* distinct, as the ids create_batch returns are.
\* api_ok = FALSE: batches.retrieve raises; it always raises for an id the
\* service does not know.  cost_ok = FALSE: _save_costs raises.
poll_one(api_ok, cost_ok) ==
    LET batch_id == Head(poll.todo)
        rest == Tail(poll.todo)
    IN  IF batch_id \notin DOMAIN service \/ ~api_ok
        THEN \* except Exception: recorded as "error"
             /\ poll' = [poll EXCEPT
                            !.completed = Put(@, batch_id, "error"),
                            !.order = Append(@, batch_id),
                            !.remaining = remove(@, batch_id),
                            !.todo = rest]
             /\ faults' = IF batch_id \in DOMAIN service THEN faults + 1 ELSE faults
             /\ UNCHANGED <<batch_jobs, costs, costs_file, damaged>>
        ELSE LET batch == service[batch_id]
                 status_ == batch.status
                 jobs1 == track_status(batch_jobs, batch_id, status_)
             IN  IF status_ \notin TerminalStatuses
                 THEN /\ batch_jobs' = jobs1
                      /\ poll' = [poll EXCEPT !.todo = rest]
                      /\ UNCHANGED <<costs, costs_file, damaged, faults>>
                 ELSE LET jobs2 == track_completed_at(jobs1, batch_id)
                          done == Put(poll.completed, batch_id, status_)
                          left == remove(poll.remaining, batch_id)
                      IN  /\ batch_jobs' = jobs2
                          /\ IF ~tracks_cost(status_)
                             THEN /\ poll' = [poll EXCEPT !.completed = done,
                                                 !.order = Append(@, batch_id),
                                                 !.remaining = left, !.todo = rest]
                                  /\ UNCHANGED <<costs, costs_file, damaged, faults>>
                             ELSE /\ costs' = Put(costs, batch_id,
                                                  cost_entry(jobs2, batch_id, batch))
                                  /\ costs_file' = save(costs_file, costs', cost_ok)
                                  /\ WriteOutcome("costs", cost_ok)
                                  /\ IF cost_ok
                                     THEN poll' = [poll EXCEPT !.completed = done,
                                                     !.order = Append(@, batch_id),
                                                     !.remaining = left, !.todo = rest]
                                     ELSE \* the handler runs after the id was removed:
                                          \* its remaining.remove raises ValueError
                                          poll' = [poll EXCEPT !.pc = "raised",
                                                  !.completed = Put(done, batch_id, "error"),
                                                  !.order = Append(@, batch_id),
                                                  !.remaining = left, !.todo = rest]

\* the loop written as an "if": it returns after its first round
round_end_once(save_ok, next_full) ==
    /\ IF poll.should_full_poll
       THEN /\ batch_jobs_file' = save(batch_jobs_file, batch_jobs, save_ok)
            /\ WriteOutcome("batch_jobs", save_ok)
       ELSE UNCHANGED <<batch_jobs_file, damaged, faults>>
    /\ IF poll.should_full_poll /\ ~save_ok
       THEN poll' = [poll EXCEPT !.pc = "raised"]
       ELSE poll' = [poll EXCEPT !.pc = "returned"]

\* the end of a round: the full-poll save, then either the sleep before the
\* next round or the return.  save_ok = FALSE: _save_batch_jobs raises, outside
\* the try.  next_full: whether `interval` seconds will have passed when the
\* next round starts.
round_end(save_ok, next_full) ==
    /\ IF poll.should_full_poll
       THEN /\ batch_jobs_file' = save(batch_jobs_file, batch_jobs, save_ok)
            /\ WriteOutcome("batch_jobs", save_ok)
       ELSE UNCHANGED <<batch_jobs_file, damaged, faults>>
    /\ IF poll.should_full_poll /\ ~save_ok
       THEN poll' = [poll EXCEPT !.pc = "raised"]
       ELSE IF poll.remaining # <<>>
            THEN poll' = [poll EXCEPT !.todo = poll.remaining,
                                      !.should_full_poll = next_full]
            ELSE poll' = [poll EXCEPT !.pc = "returned"]

-----------------------------------------------------------------------------
(* The batch execution service, which runs the jobs on its own *)

\* a job advances: validating -> in_progress | failed, and
\* in_progress -> completed (with an answer per request) | expired | cancelled
ServiceStep(batch_id) ==
    /\ batch_id \in DOMAIN service
    /\ LET job == service[batch_id]
       IN  \/ /\ job.status = "validating"
              /\ \E next \in {"in_progress", "failed"} :
                    service' = Put(service, batch_id, Put(job, "status", next))
           \/ /\ job.status = "in_progress"
              /\ \E next \in {"expired", "cancelled"} :
                    service' = Put(service, batch_id, Put(job, "status", next))
           \/ /\ job.status = "in_progress"
              /\ \E results \in Answers(job.requests) :
                    service' = Put(service, batch_id,
                                   [job EXCEPT !.status = "completed",
                                               !.results = results])

-----------------------------------------------------------------------------
(* The BatchManager operations as steps of a caller that may call them in
   any order, one at a time *)

speech_request(speech_id) == [custom_id |-> <<"speech", speech_id>>]

\* lists of distinct ids in the order in which the service hands them out
IdLists(S, n) ==
    {ids \in SeqsUpTo(S, n) :
        \A i, j \in 1..Len(ids) : i < j => ids[i] < ids[j]}

RequestLists ==
    {[i \in 1..n |-> speech_request(i)] : n \in 1..MaxRequests}

filter_metadata(person_id, topics, index) ==
    [phase |-> "filter", person_id |-> str(person_id),
     topics |-> join(",", topics), batch_index |-> str(index)]

MetaInputs ==
    LET m == filter_metadata(1, <<TopicA, TopicB>>, 0)
    IN  {m} \cup {Put(m, "retry_attempt", k) : k \in 1..MaxAttempts}

InCall == poll.pc = "round"

CreateBatch(requests, metadata, ok) ==
    /\ ~InCall
    /\ create_batch(requests, metadata, ok)
    /\ lastOp' = Op("create_batch", ok)
    /\ UNCHANGED <<trackerVars, poll>>

RetryFailedRequests(failed_requests, metadata, max_attempts, ok) ==
    /\ ~InCall
    /\ Get(metadata, "retry_attempt", 0) >= max_attempts =>
          Len(failed_speeches) + Len(failed_requests) <= MaxDead
    /\ retry_failed_requests(failed_requests, metadata, max_attempts, ok)
    /\ lastOp' = Op("retry_failed_requests", ok)
    /\ UNCHANGED <<trackerVars, poll>>

\* the process dies inside create_batch, after batches.create has returned
\* and before the ledger is written
CrashInCreate(requests) ==
    /\ ~InCall
    /\ service' = batches_create(requests)
    /\ ProcessRestarts
    /\ lastOp' = Op("crash_in_create", FALSE)

\* the process dies between or inside any other calls
Crash ==
    /\ ProcessRestarts
    /\ lastOp' = Op("crash", FALSE)
    /\ UNCHANGED service

PollBatches(batch_ids) ==
    /\ ~InCall
    /\ poll' = poll_start(batch_ids)
    /\ lastOp' = Op("poll_batches", TRUE)
    /\ returned' = <<>>
    /\ UNCHANGED <<trackerVars, service, ledgerVars, damaged, faults>>

PollOne(api_ok, cost_ok) ==
    /\ InCall
    /\ poll.todo # <<>>
    /\ poll_one(api_ok, cost_ok)
    /\ UNCHANGED <<trackerVars, service, batch_jobs_file, failed_speeches,
                   failed_speeches_file, returned, lastOp>>

RoundEnd(save_ok, next_full) ==
    /\ InCall
    /\ poll.todo = <<>>
    /\ round_end(save_ok, next_full)
    /\ UNCHANGED <<trackerVars, service, batch_jobs, costs, costs_file,
                   failed_speeches, failed_speeches_file, returned, lastOp>>

Service ==
    /\ \E batch_id \in DOMAIN service : ServiceStep(batch_id)
    /\ UNCHANGED <<trackerVars, ledgerVars, poll, returned, damaged, faults,
                   lastOp>>

ManagerInit ==
    /\ status = EmptyDict
    /\ statusFile = EmptyDict
    /\ damaged = {}
    /\ faults = 0
    /\ lastOp = Op("init", TRUE)
    /\ reported = EmptyDict
    /\ ManagerIdle
    /\ RunIdle

\* submission and retry, called in any order, with crashes
SubmitNext ==
    /\ Cardinality(DOMAIN service) < MaxJobs
    /\ UNCHANGED runVars
    /\ \/ \E requests \in RequestLists, metadata \in MetaInputs, ok \in Outcomes :
             CreateBatch(requests, metadata, ok)
       \/ \E requests \in RequestLists, metadata \in MetaInputs,
              max_attempts \in 0..MaxAttempts, ok \in Outcomes :
             RetryFailedRequests(requests, metadata, max_attempts, ok)
       \/ \E requests \in RequestLists : CrashInCreate(requests)
       \/ Crash

SubmitSpec == ManagerInit /\ [][SubmitNext]_vars

\* max_attempts: int = 3
DefaultMaxAttempts == 3

\* a caller that retries with one metadata dict carried from call to call
Retrying(calls, metadata) ==
    [pc |-> "retrying", calls |-> calls, metadata |-> metadata]

\* the next call of a chain, with the requests that still fail
RetryAgain(failed_requests, ok) ==
    /\ run.pc = "retrying"
    /\ run.calls <= DefaultMaxAttempts
    /\ Get(run.metadata, "retry_attempt", 0) >= DefaultMaxAttempts =>
          Len(failed_speeches) + Len(failed_requests) <= MaxDead
    /\ retry_failed_requests(failed_requests, run.metadata,
                             DefaultMaxAttempts, ok)
    /\ run' = Retrying(run.calls + 1,
                       retry_metadata(run.metadata, DefaultMaxAttempts))
    /\ lastOp' = Op("retry_failed_requests", ok)
    /\ UNCHANGED <<trackerVars, poll, filtered, client_data, filterDone>>

\* the caller turns to the failed requests of another batch
RetryOther(index) ==
    /\ run.pc = "retrying"
    /\ run.calls > 0
    /\ Cardinality(DOMAIN service) < MaxJobs
    /\ run' = Retrying(0, filter_metadata(1, <<TopicA, TopicB>>, index))
    /\ lastOp' = Op("retry_other", TRUE)
    /\ UNCHANGED <<trackerVars, managerVars, damaged, faults, filtered,
                   client_data, filterDone>>

RetryInit ==
    /\ status = EmptyDict
    /\ statusFile = EmptyDict
    /\ damaged = {}
    /\ faults = 0
    /\ lastOp = Op("init", TRUE)
    /\ reported = EmptyDict
    /\ ManagerIdle
    /\ run = Retrying(0, filter_metadata(1, <<TopicA, TopicB>>, 0))
    /\ filtered = EmptyDict
    /\ client_data = EmptyDict
    /\ filterDone = [mem |-> {}, file |-> {}]

RetryNext ==
    \/ \E failed_requests \in RequestLists, ok \in Outcomes :
          RetryAgain(failed_requests, ok)
    \/ \E index \in 0..1 : RetryOther(index)

RetrySpec == RetryInit /\ [][RetryNext]_vars

\* the values of max_attempts a chain of retries is run with
ChainLimits == (0..MaxAttempts) \cup {DefaultMaxAttempts}

\* a caller that retries under max_attempts with one metadata dict carried
\* from call to call, counting the calls that created a job
Chain(calls, created, metadata, max_attempts) ==
    [pc |-> "chain", calls |-> calls, created |-> created,
     metadata |-> metadata, max_attempts |-> max_attempts]

\* the next call of the chain, with the requests that still fail
ChainCall(failed_requests, ok) ==
    /\ run.pc = "chain"
    /\ run.calls <= run.max_attempts + 1
    /\ Get(run.metadata, "retry_attempt", 0) >= run.max_attempts =>
          Len(failed_speeches) + Len(failed_requests) <= MaxDead
    /\ retry_failed_requests(failed_requests, run.metadata,
                             run.max_attempts, ok)
    /\ run' = Chain(run.calls + 1,
                    IF service' # service THEN run.created + 1
                    ELSE run.created,
                    retry_metadata(run.metadata, run.max_attempts),
                    run.max_attempts)
    /\ lastOp' = Op("retry_failed_requests", ok)
    /\ UNCHANGED <<trackerVars, poll, filtered, client_data, filterDone>>

\* the caller turns to the failed requests of another batch
ChainOther(max_attempts) ==
    /\ run.pc = "chain"
    /\ run.calls > 0
    /\ Cardinality(DOMAIN service) < MaxJobs
    /\ run' = Chain(0, 0, filter_metadata(1, <<TopicA, TopicB>>, 0),
                    max_attempts)
    /\ lastOp' = Op("retry_other", TRUE)
    /\ UNCHANGED <<trackerVars, managerVars, damaged, faults, filtered,
                   client_data, filterDone>>

ChainInit ==
    /\ status = EmptyDict
    /\ statusFile = EmptyDict
    /\ damaged = {}
    /\ faults = 0
    /\ lastOp = Op("init", TRUE)
    /\ reported = EmptyDict
    /\ ManagerIdle
    /\ \E max_attempts \in ChainLimits :
          run = Chain(0, 0, filter_metadata(1, <<TopicA, TopicB>>, 0),
                      max_attempts)
    /\ filtered = EmptyDict
    /\ client_data = EmptyDict
    /\ filterDone = [mem |-> {}, file |-> {}]

ChainNext ==
    \/ \E failed_requests \in RequestLists, ok \in Outcomes :
          ChainCall(failed_requests, ok)
    \/ \E max_attempts \in ChainLimits : ChainOther(max_attempts)

ChainSpec == ChainInit /\ [][ChainNext]_vars

\* the ids of the jobs created and polled under PollSpec
PollJobs == {1, 2}

\* submission of one-request batches, polling, and the service at work
PollNext ==
    /\ UNCHANGED runVars
    /\ \/ \E ok \in Outcomes :
             /\ NextBatchId \in PollJobs
             /\ CreateBatch(<<speech_request(1)>>,
                            filter_metadata(1, <<TopicA, TopicB>>, 0), ok)
       \/ \E batch_ids \in IdLists(PollJobs, Cardinality(PollJobs)) :
             PollBatches(batch_ids)
       \/ \E api_ok \in Outcomes, cost_ok \in Outcomes : PollOne(api_ok, cost_ok)
       \/ \E save_ok \in Outcomes, next_full \in BOOLEAN :
             RoundEnd(save_ok, next_full)
       \/ Service

PollSpec == ManagerInit /\ [][PollNext]_vars

\* the service at work on one job
ServiceOn(batch_id) ==
    /\ ServiceStep(batch_id)
    /\ UNCHANGED <<trackerVars, ledgerVars, poll, returned, damaged, faults,
                   lastOp, runVars>>

\* one id polled, the cost entry written if there is one; the status call
\* may raise
LivePollOne ==
    /\ \E api_ok \in Outcomes : PollOne(api_ok, TRUE)
    /\ UNCHANGED runVars

\* the end of a round, the ledger written if the round was a full poll
LiveRoundEnd ==
    /\ \E next_full \in BOOLEAN : RoundEnd(TRUE, next_full)
    /\ UNCHANGED runVars

\* submission, polling and the service, every write succeeding
LiveNext ==
    \/ /\ NextBatchId \in PollJobs
       /\ CreateBatch(<<speech_request(1)>>,
                      filter_metadata(1, <<TopicA, TopicB>>, 0), TRUE)
       /\ UNCHANGED runVars
    \/ /\ \E batch_ids \in IdLists(PollJobs, Cardinality(PollJobs)) :
             PollBatches(batch_ids)
       /\ UNCHANGED runVars
    \/ LivePollOne
    \/ LiveRoundEnd
    \/ \E batch_id \in PollJobs : ServiceOn(batch_id)

\* the loop of poll_batches goes on by itself (it only sleeps between
\* rounds), and the service does not leave a job unfinished for ever
LiveFair ==
    /\ WF_vars(LivePollOne)
    /\ WF_vars(LiveRoundEnd)
    /\ \A batch_id \in PollJobs : WF_vars(ServiceOn(batch_id))

LiveSpec == ManagerInit /\ [][LiveNext]_vars /\ LiveFair

\* poll_batches called by a caller that notes which ids have a cost entry
\* when the call starts
PollCall(batch_ids) ==
    /\ ~InCall
    /\ poll' = poll_start(batch_ids)
    /\ lastOp' = [op |-> "poll_batches", ok |-> TRUE,
                  had_cost |-> DOMAIN costs \cup DOMAIN costs_file]
    /\ returned' = <<>>
    /\ UNCHANGED <<trackerVars, service, ledgerVars, damaged, faults>>

CostNext ==
    /\ UNCHANGED runVars
    /\ \/ \E ok \in Outcomes :
             /\ NextBatchId \in PollJobs
             /\ CreateBatch(<<speech_request(1)>>,
                            filter_metadata(1, <<TopicA, TopicB>>, 0), ok)
       \/ \E batch_ids \in IdLists(PollJobs, Cardinality(PollJobs)) :
             PollCall(batch_ids)
       \/ \E api_ok \in Outcomes, cost_ok \in Outcomes : PollOne(api_ok, cost_ok)
       \/ \E save_ok \in Outcomes, next_full \in BOOLEAN :
             RoundEnd(save_ok, next_full)
       \/ Service

CostSpec == ManagerInit /\ [][CostNext]_vars

-----------------------------------------------------------------------------
(* The stage runs: cli.py filter and score, FilterPipeline, ScorePipeline.
   Writes of the artifact files (the csv and aggregation files) are taken to
   succeed; the writes of the status file and the ledgers may fail. *)

Runs == {1, 2}         \* the stage runs of one behaviour: a first and a second
BATCH_SIZE == 1        \* Config.BATCH_SIZE, scaled to the database

\* --reasoning-rate as given on the command line
ReasoningRates == {0}

\* random.random() < reasoning_rate, for a rate of 0 (never) or 1 (always)
sampled(reasoning_rate) == reasoning_rate = 1

\* all_pairs: every resolved member with every topic of topics.txt
AllPairs == <<<<1, TopicA>>, <<1, TopicB>>>>

\* Database.get_all_speeches_by_person_id: the ids of the member's speeches,
\* all of them with text; the database holds one speech of member 1, of
\* member 2 one more than a batch takes, and none of member 3
Speeches(person_id) ==
    IF person_id = 1 THEN <<1>>
    ELSE IF person_id = 3 THEN <<>>
    ELSE [i \in 1..(BATCH_SIZE + 1) |-> i]

\* all_pairs when mks.txt names members 1 and 3 and topics.txt one topic
QuietPairs == <<<<1, TopicA>>, <<3, TopicA>>>>

\* all_pairs when mks.txt names member 2 and topics.txt one topic
ChunkPairs == <<<<2, TopicA>>>>

Min(a, b) == IF a < b THEN a ELSE b

\* the orders in which a Python set may be listed
Perms(S) ==
    {f \in [1..Cardinality(S) -> S] :
        \A i, j \in 1..Cardinality(S) : i # j => f[i] # f[j]}

\* requests[i : i + batch_size] for i in range(0, len(requests), batch_size)
RECURSIVE chunks(_, _)
chunks(requests, batch_size) ==
    IF requests = <<>> THEN <<>>
    ELSE LET n == Min(batch_size, Len(requests))
         IN  <<SubSeq(requests, 1, n)>>
                \o chunks(SubSeq(requests, n + 1, Len(requests)), batch_size)

score_request(speech_id, include_reasoning) ==
    [custom_id |-> <<"score", speech_id, IF include_reasoning THEN 1 ELSE 0>>]

score_metadata(person_id, topic, index) ==
    [phase |-> "score", person_id |-> str(person_id),
     topic |-> topic, batch_index |-> str(index)]

\* FilterPipeline._process_person: the create_batch calls it makes
process_person(person_id, topics) ==
    LET speeches == Speeches(person_id)
        requests == [i \in 1..Len(speeches) |-> speech_request(speeches[i])]
        parts == chunks(requests, BATCH_SIZE)
    IN  [i \in 1..Len(parts) |->
            [requests |-> parts[i],
             metadata |-> filter_metadata(person_id, topics, i - 1)]]

\* the keys of person_topics in insertion order
RECURSIVE persons_of(_)
persons_of(pairs) ==
    IF pairs = <<>> THEN <<>>
    ELSE LET rest == persons_of(SubSeq(pairs, 1, Len(pairs) - 1))
             p == pairs[Len(pairs)][1]
         IN  IF p \in Range(rest) THEN rest ELSE Append(rest, p)

topics_of(pairs, person_id) ==
    {pair[2] : pair \in {q \in Range(pairs) : q[1] = person_id}}

\* list(topics) for every person: a set is listed in any order
TopicOrders(pairs) ==
    {f \in [Range(persons_of(pairs)) -> UNION {Perms(topics_of(pairs, p)) :
                                                 p \in Range(persons_of(pairs))}] :
        \A p \in Range(persons_of(pairs)) : f[p] \in Perms(topics_of(pairs, p))}

\* FilterPipeline.run up to the poll: the create_batch calls in order
RECURSIVE filter_work(_, _)
filter_work(persons, order) ==
    IF persons = <<>> THEN <<>>
    ELSE process_person(Head(persons), order[Head(persons)])
            \o filter_work(Tail(persons), order)

\* a _process_pair that submits the speeches of the member when the csv
\* gives it none
process_pair_unchecked(person_id, topic, include_reasoning) ==
    LET key == <<person_id, topic>>
        rows == Get(filtered, key, <<>>)
        speeches == Speeches(person_id)
        requests == IF rows = <<>>
                    THEN [i \in 1..Len(speeches) |->
                             score_request(speeches[i], include_reasoning)]
                    ELSE [i \in 1..Len(rows) |->
                             score_request(int(rows[i].Id), include_reasoning)]
        parts == chunks(requests, BATCH_SIZE)
    IN  [i \in 1..Len(parts) |->
            [requests |-> parts[i],
             metadata |-> score_metadata(person_id, topic, i - 1)]]

\* ScorePipeline._process_pair: nothing without a filtered csv with rows
process_pair(person_id, topic, include_reasoning) ==
    LET key == <<person_id, topic>>
        rows == Get(filtered, key, <<>>)
        requests == [i \in 1..Len(rows) |->
                        score_request(int(rows[i].Id), include_reasoning)]
        parts == chunks(requests, BATCH_SIZE)
    IN  [i \in 1..Len(parts) |->
            [requests |-> parts[i],
             metadata |-> score_metadata(person_id, topic, i - 1)]]

\* ScorePipeline.run up to the poll
RECURSIVE score_work(_, _)
score_work(pairs, include_reasoning) ==
    IF pairs = <<>> THEN <<>>
    ELSE process_pair(Head(pairs)[1], Head(pairs)[2], include_reasoning)
            \o score_work(Tail(pairs), include_reasoning)

\* retrieve_results: the lines of the output file, which a job without a
\* successful request does not have
has_output_file(job) ==
    \E i \in 1..Len(job.results) : job.results[i].kind # "http_error"

\* a result whose content makes the parsing raise an exception that the
\* "except (json.JSONDecodeError, KeyError, ValueError)" does not catch:
\* score_data.get(...) on a value that is no dict raises AttributeError
unparsable(job) ==
    \E i \in 1..Len(job.results) : job.results[i].kind = "bad_shape"

\* results attributed to the request at the same position of the batch
answered_by_position(job) ==
    LET hits == {i \in 1..Len(job.results) : job.results[i].kind = "ok"}
        RECURSIVE pick(_)
        pick(i) == IF i > Len(job.results) THEN <<>>
                   ELSE (IF i \in hits
                         THEN <<job.requests[i].custom_id>> ELSE <<>>)
                           \o pick(i + 1)
    IN  pick(1)

\* the custom_ids of the results that yield a row, in the order of the
\* results: status 200 and a content that parses; a result with another
\* status, or whose content is not JSON, is passed over
answered(job) ==
    LET RECURSIVE pick(_)
        pick(i) == IF i > Len(job.results) THEN <<>>
                   ELSE (IF job.results[i].kind = "ok"
                         THEN <<job.results[i].custom_id>> ELSE <<>>)
                           \o pick(i + 1)
    IN  pick(1)

\* the rows _save_filtered_speeches appends, the speech id parsed from the
\* custom_id; Text and RelevanceScore are functions of the speech and of
\* the answer and are left out
filtered_rows(custom_ids) ==
    [i \in 1..Len(custom_ids) |-> [Id |-> str(custom_ids[i][2])]]

\* _save_filtered_speeches for every topic of all_by_topic, which has the
\* topics of the answers that parsed: append mode
RECURSIVE save_filtered(_, _, _, _)
save_filtered(files, person_id, topics, rows) ==
    IF topics = <<>> \/ rows = <<>> THEN files
    ELSE LET key == <<person_id, Head(topics)>>
         IN  save_filtered(Put(files, key, Get(files, key, <<>>) \o rows),
                           person_id, Tail(topics), rows)

\* a loop that marks the first topic only
mark_topics_first(st, person_id, topics, n, batch_id) ==
    IF n = 0 THEN st
    ELSE mark_filter_complete(st, person_id, topics[1], <<batch_id>>)

\* "for topic in topics: mark_filter_complete(person_id, topic, [batch_id])"
\* over the first n topics
RECURSIVE mark_topics(_, _, _, _, _)
mark_topics(st, person_id, topics, n, batch_id) ==
    IF n = 0 THEN st
    ELSE mark_filter_complete(
             mark_topics(st, person_id, topics, n - 1, batch_id),
             person_id, topics[n], <<batch_id>>)

\* the stance_score an answer that parses carries
OkRank == 1

\* the rows of _save_scored_speeches, the speech id and the reasoning flag
\* parsed from the custom_id; Reasoning is whether the row may hold one and
\* Rank the stance_score of the answer.  Date and Text are functions of the
\* speech and are left out.
scored_rows(custom_ids, topic) ==
    [i \in 1..Len(custom_ids) |->
        [Id |-> custom_ids[i][2], Topic |-> topic, Rank |-> OkRank,
         Reasoning |-> custom_ids[i][3] = 1]]

\* a Topics list that gets a new entry at every update
update_mk_json_appends(data, person_id, topic, count, average) ==
    LET key == <<"main.json", person_id>>
        entry == [topicName |-> topic, count |-> count, average |-> average]
    IN  Put(data, key, Append(Get(data, key, <<>>), entry))

\* Database.get_person_metadata: the row of the people table, <<>> for None;
\* the table has rows for members 1 and 2
get_person_metadata(person_id) ==
    IF person_id \in {1, 2} THEN <<[id |-> person_id]>> ELSE <<>>

\* _update_mk_json: the member's Topics list, count and average of the
\* first entry of the topic set where there is one, an entry appended where
\* there is none; a document that does not exist is made from the member's
\* metadata, and nothing is written when there is none
update_mk_json(data, person_id, topic, count, average) ==
    LET key == <<"main.json", person_id>>
        topics == Get(data, key, <<>>)
        found == {i \in 1..Len(topics) : topics[i].topicName = topic}
        entry == [topicName |-> topic, count |-> count, average |-> average]
    IN  IF key \notin DOMAIN data /\ get_person_metadata(person_id) = <<>>
        THEN data
        ELSE IF found = {}
        THEN Put(data, key, Append(topics, entry))
        ELSE LET i == CHOOSE j \in found : \A k \in found : j <= k
             IN  Put(data, key,
                     [topics EXCEPT ![i] = [@ EXCEPT !.count = count,
                                                     !.average = average]])

\* a topic document that adds the new speeches to those it has
update_topic_json_merged(data, topic, person_id, count, average) ==
    LET key == <<"topics", topic>>
        doc == Get(data, key, EmptyDict)
        old == Get(doc, str(person_id), <<0, 0>>)
    IN  Put(data, key, Put(doc, str(person_id), <<old[1] + count, average>>))

\* _update_topic_json: data[str(person_id)] = [count, round(average, 2)]
update_topic_json(data, topic, person_id, count, average) ==
    LET key == <<"topics", topic>>
    IN  Put(data, key,
            Put(Get(data, key, EmptyDict), str(person_id), <<count, average>>))

RECURSIVE Sum(_)
Sum(ranks) == IF ranks = <<>> THEN 0 ELSE Head(ranks) + Sum(Tail(ranks))

\* round(mean(ranks), 2), in hundredths
rounded_mean(ranks) ==
    (200 * Sum(ranks) + Len(ranks)) \div (2 * Len(ranks))

\* an update that does not test for an empty result set
update_aggregations_unguarded(data, person_id, topic, scored_speeches) ==
    LET count == Len(scored_speeches)
        ranks == [i \in 1..count |-> scored_speeches[i].Rank]
        average == IF count = 0 THEN 0 ELSE rounded_mean(ranks)
    IN  update_topic_json(
            update_mk_json(data, person_id, topic, count, average),
            topic, person_id, count, average)

\* OutputManager.update_aggregations
update_aggregations(data, person_id, topic, scored_speeches) ==
    IF scored_speeches = <<>> THEN data
    ELSE LET count == Len(scored_speeches)
             ranks == [i \in 1..count |-> scored_speeches[i].Rank]
             average == rounded_mean(ranks)
         IN  update_topic_json(
                 update_mk_json(data, person_id, topic, count, average),
                 topic, person_id, count, average)

\* the frame of a run
Frame(pc, n, phase, work, ids, done, write_failed) ==
    [pc |-> pc, n |-> n, phase |-> phase, work |-> work,
     all_batch_ids |-> ids, done |-> done, write_failed |-> write_failed]

\* the run goes on, or ends with the exception e (typer.Exit(1))
Raise(write_failed) ==
    [run EXCEPT !.pc = "failed", !.write_failed = @ \/ write_failed]

\* one more entry of `results` handled; after the last the run returns and
\* the command prints "... pipeline complete!"
Handled(write_failed) ==
    [run EXCEPT !.done = @ + 1,
                !.write_failed = @ \/ write_failed,
                !.pc = IF run.done + 1 = Len(poll.order)
                       THEN "success" ELSE @]

\* cli.py filter / score up to the call of run(): a new process builds the
\* JobTracker and the BatchManager from the files, resets if asked to
\* (force_reprocess) and asks for the pending pairs; then the pipeline lists
\* the batches it will create.  A file left truncated does not load.
StartRunFor(all_pairs, phase, force, reasoning_rate, ok) ==
    LET include_reasoning == sampled(reasoning_rate)
        st == IF force THEN reset_pairs(statusFile, all_pairs, phase)
              ELSE statusFile
        pending == get_pending_pairs(st, phase, all_pairs)
        mem == IF force /\ phase = "filter"
               THEN filterDone.file \ Range(all_pairs) ELSE filterDone.file
        n == IF run.pc = "idle" THEN 1 ELSE run.n + 1
    IN  /\ n \in Runs
        /\ ok \/ force
        /\ batch_jobs' = batch_jobs_file
        /\ costs' = costs_file
        /\ failed_speeches' = failed_speeches_file
        /\ poll' = [pc |-> "idle"]
        /\ returned' = <<>>
        /\ lastOp' = Op(phase, ok)
        /\ UNCHANGED <<service, batch_jobs_file, costs_file,
                       failed_speeches_file, filtered, client_data>>
        /\ IF damaged # {}
           THEN /\ status' = EmptyDict
                /\ run' = Frame("failed", n, phase, <<>>, <<>>, 0, FALSE)
                /\ filterDone' = [filterDone EXCEPT !.mem = {}]
                /\ UNCHANGED <<statusFile, reported, damaged, faults>>
           ELSE /\ status' = st
                /\ IF force THEN SaveStatus(st, ok)
                   ELSE UNCHANGED <<statusFile, reported, damaged, faults>>
                /\ filterDone' = [mem |-> mem,
                                  file |-> IF force /\ ok THEN mem
                                           ELSE filterDone.file]
                /\ IF ~ok
                   THEN run' = Frame("failed", n, phase, <<>>, <<>>, 0, TRUE)
                   ELSE \E order \in TopicOrders(pending) :
                          LET work == IF phase = "filter"
                                      THEN filter_work(persons_of(pending), order)
                                      ELSE score_work(pending, include_reasoning)
                          IN  run' = Frame(IF work = <<>> THEN "success"
                                           ELSE "submit",
                                           n, phase, work, <<>>, 0, FALSE)

\* the command with the input files of the runs
StartRun(phase, force, reasoning_rate, ok) ==
    StartRunFor(AllPairs, phase, force, reasoning_rate, ok)

\* the next create_batch call of _process_person / _process_pair; an
\* exception of create_batch ends the run
RunCreate(ok) ==
    /\ run.pc = "submit"
    /\ run.work # <<>>
    /\ create_batch(Head(run.work).requests, Head(run.work).metadata, ok)
    /\ lastOp' = Op("create_batch", ok)
    /\ run' = IF ok
              THEN [run EXCEPT !.work = Tail(@),
                               !.all_batch_ids = Append(@, NextBatchId)]
              ELSE Raise(TRUE)
    /\ UNCHANGED <<trackerVars, poll, filtered, client_data, filterDone>>

\* run(): every batch is created, poll_batches(all_batch_ids, ...) is called
RunPoll ==
    /\ run.pc = "submit"
    /\ run.work = <<>>
    /\ poll' = poll_start(run.all_batch_ids)
    /\ run' = [run EXCEPT !.pc = "poll"]
    /\ lastOp' = Op("poll_batches", TRUE)
    /\ UNCHANGED <<trackerVars, service, ledgerVars, damaged, faults, returned,
                   filtered, client_data, filterDone>>

\* poll_batches raised: the exception leaves run() and the command fails
RunRaised ==
    /\ run.pc = "poll"
    /\ poll.pc = "raised"
    /\ run' = Raise(TRUE)
    /\ lastOp' = Op("poll_batches", FALSE)
    /\ poll' = [pc |-> "idle"]
    /\ UNCHANGED <<trackerVars, service, ledgerVars, damaged, faults, returned,
                   filtered, client_data, filterDone>>

\* FilterPipeline._process_batch_results for a completed batch: the rows of
\* the answered speeches are appended to the csv of every topic, then every
\* topic is marked filter_complete.  failing = k > 0: the _save_status of the
\* k-th mark raises; the handler prints and re-raises, as it does when the
\* job has no output file or a result cannot be parsed (nothing is written
\* then: the csv files are written after the loop over the results).
FilterResults(batch_id, failing) ==
    LET job == service[batch_id]
        batch_info == Get(batch_jobs, batch_id, EmptyDict)
        person_id == int(batch_info.person_id)
        topics == split(batch_info.topics, ",")
        n == IF failing = 0 THEN Len(topics) ELSE failing
        saved == IF failing = 0 THEN n ELSE n - 1
        marked(m) == {<<person_id, topics[i]>> : i \in 1..m}
    IN  IF ~has_output_file(job) \/ unparsable(job)
        THEN /\ failing = 0
             /\ run' = Raise(FALSE)
             /\ UNCHANGED <<trackerVars, damaged, faults, filtered, filterDone>>
        ELSE /\ failing <= Len(topics)
             /\ filtered' = save_filtered(filtered, person_id, topics,
                                          filtered_rows(answered(job)))
             /\ status' = mark_topics(status, person_id, topics, n, batch_id)
             /\ statusFile' =
                   IF saved = 0 THEN statusFile
                   ELSE mark_topics(status, person_id, topics, saved, batch_id)
             /\ reported' =
                   IF saved = 0 THEN reported
                   ELSE mark_topics(status, person_id, topics, saved, batch_id)
             /\ WriteOutcome("status", failing = 0)
             /\ filterDone' =
                   [mem |-> filterDone.mem \cup marked(n),
                    file |-> IF saved = 0 THEN filterDone.file
                             ELSE filterDone.mem \cup marked(saved)]
             /\ run' = IF failing = 0 THEN Handled(FALSE) ELSE Raise(TRUE)

\* "except Exception as e: print": whatever was raised while the batch was
\* processed, the loop over the results goes on
ScoreOutcome(ok) == Handled(~ok)

\* ScorePipeline._process_batch_results for a completed batch: the scored
\* csv is written, the pair is marked score_complete and the aggregations
\* are updated.  ok = FALSE: the _save_status of the mark raises.  When the
\* job has no output file or a result cannot be parsed, the exception is
\* raised before anything is written and the handler prints it.
ScoreResults(batch_id, ok) ==
    LET job == service[batch_id]
        batch_info == Get(batch_jobs, batch_id, EmptyDict)
        person_id == int(batch_info.person_id)
        topic == batch_info.topic
        scored_speeches == scored_rows(answered(job), topic)
        written == IF scored_speeches = <<>> THEN client_data
                   ELSE Put(client_data, <<"csv", person_id, topic>>,
                            scored_speeches)
    IN  IF ~has_output_file(job) \/ unparsable(job)
        THEN /\ ok
             /\ run' = Handled(FALSE)
             /\ UNCHANGED <<trackerVars, damaged, faults, client_data,
                            filterDone>>
        ELSE /\ status' = mark_score_complete(status, person_id, topic,
                                              <<batch_id>>)
             /\ SaveStatus(status', ok)
             /\ client_data' =
                   IF ok THEN update_aggregations(written, person_id, topic,
                                                  scored_speeches)
                   ELSE written
             /\ filterDone' = [filterDone EXCEPT
                                  !.file = IF ok THEN filterDone.mem ELSE @]
             /\ run' = ScoreOutcome(ok)

\* "for batch_id, status in results.items()": the next entry of the map
\* poll_batches returned, in the order of its keys
RunResult(failing) ==
    /\ run.pc = "poll"
    /\ poll.pc = "returned"
    /\ run.done < Len(poll.order)
    /\ failing > 0 => faults < MaxFaults
    /\ LET batch_id == poll.order[run.done + 1]
       IN  /\ lastOp' = Op("process_batch_results", failing = 0)
           /\ IF poll.completed[batch_id] # "completed"
              THEN /\ failing = 0
                   /\ run' = Handled(FALSE)
                   /\ UNCHANGED <<trackerVars, damaged, faults, filtered,
                                  client_data, filterDone>>
              ELSE IF run.phase = "filter"
                   THEN /\ FilterResults(batch_id, failing)
                        /\ UNCHANGED client_data
                   ELSE /\ failing <= 1
                        /\ ScoreResults(batch_id, failing = 0)
                        /\ UNCHANGED filtered
    /\ UNCHANGED <<service, ledgerVars, poll, returned>>

\* the service at work on the jobs the run waits for.  The run observes a
\* job only when poll_batches retrieves it, so the progress a job makes at
\* other times is taken when the poll is under way.
RunService ==
    /\ run.pc = "poll"
    /\ poll.pc = "round"
    /\ \E batch_id \in Range(poll.remaining) : ServiceStep(batch_id)
    /\ UNCHANGED <<trackerVars, ledgerVars, poll, returned, damaged, faults,
                   lastOp, runVars>>

RunInit ==
    /\ status = EmptyDict
    /\ statusFile = EmptyDict
    /\ damaged = {}
    /\ faults = 0
    /\ lastOp = Op("init", TRUE)
    /\ reported = EmptyDict
    /\ ManagerIdle
    /\ RunIdle

\* stage runs one after another, a run begun at any time ending the one
\* before it, and the service at work
RunNext ==
    \/ \E phase \in Phases, force \in BOOLEAN, reasoning_rate \in ReasoningRates,
          ok \in Outcomes :
          StartRun(phase, force, reasoning_rate, ok)
    \/ \E ok \in Outcomes : RunCreate(ok)
    \/ RunPoll
    \/ \E api_ok \in Outcomes, cost_ok \in Outcomes :
          /\ run.pc = "poll"
          /\ PollOne(api_ok, cost_ok)
          /\ UNCHANGED runVars
    \/ \E save_ok \in Outcomes, next_full \in BOOLEAN :
          /\ run.pc = "poll"
          /\ RoundEnd(save_ok, next_full)
          /\ UNCHANGED runVars
    \/ RunRaised
    \/ \E failing \in 0..Len(AllPairs) : RunResult(failing)
    \/ RunService

RunSpec == RunInit /\ [][RunNext]_vars

-----------------------------------------------------------------------------
\* A score run over pairs that were filtered one by one.

\* what the one request of a filter batch was answered with: a content that
\* parsed, which gave the csv of the pair a row, or one that did not, which
\* left the pair filter_complete without a csv
FilterAnswers == {"ok", "bad_json"}

\* the state after `filter` was run with a topics.txt that names the topic
\* of the i-th pair of AllPairs, for i = 1..n in turn, the batch of the i-th
\* run answered with
\* kinds[i]: job i at the service, its ledger and cost entries, the csv and
\* the status entry of the pair
RECURSIVE AfterFilter(_, _)
AfterFilter(kinds, n) ==
    IF n = 0
    THEN [service |-> EmptyDict, batch_jobs |-> EmptyDict,
          costs |-> EmptyDict, status |-> EmptyDict, filtered |-> EmptyDict]
    ELSE LET before == AfterFilter(kinds, n - 1)
             person_id == AllPairs[n][1]
             topics == <<AllPairs[n][2]>>
             speeches == Speeches(person_id)
             requests == [i \in 1..Len(speeches) |->
                             speech_request(speeches[i])]
             job == [status |-> "completed", requests |-> requests,
                     results |-> [i \in 1..Len(requests) |->
                                     [custom_id |-> requests[i].custom_id,
                                      kind |-> kinds[n]]]]
             jobs == track_completed_at(
                         track_status(
                             Put(before.batch_jobs, n,
                                 tracked_entry(
                                     filter_metadata(person_id, topics, 0),
                                     requests, n)),
                             n, "completed"),
                         n)
         IN  [service |-> Put(before.service, n, job),
              batch_jobs |-> jobs,
              costs |-> Put(before.costs, n, cost_entry(jobs, n, job)),
              status |-> mark_topics(before.status, person_id, topics, 1, n),
              filtered |-> save_filtered(before.filtered, person_id, topics,
                                         filtered_rows(answered(job)))]

ScoreInit ==
    \E kinds \in [1..Len(AllPairs) -> FilterAnswers] :
       LET after == AfterFilter(kinds, Len(AllPairs))
       IN  /\ status = after.status
           /\ statusFile = after.status
           /\ reported = after.status
           /\ damaged = {}
           /\ faults = 0
           /\ lastOp = Op("init", TRUE)
           /\ service = after.service
           /\ batch_jobs = after.batch_jobs
           /\ batch_jobs_file = after.batch_jobs
           /\ costs = after.costs
           /\ costs_file = after.costs
           /\ failed_speeches = <<>>
           /\ failed_speeches_file = <<>>
           /\ poll = [pc |-> "idle"]
           /\ returned = <<>>
           /\ run = [pc |-> "idle", n |-> 0]
           /\ filtered = after.filtered
           /\ client_data = EmptyDict
           /\ filterDone = [mem |-> Range(AllPairs), file |-> Range(AllPairs)]

\* `score` is run once
ScoreStart(reasoning_rate) ==
    /\ run.pc = "idle"
    /\ StartRun("score", FALSE, reasoning_rate, TRUE)

ScoreNext ==
    \/ \E reasoning_rate \in ReasoningRates : ScoreStart(reasoning_rate)
    \/ \E ok \in Outcomes : RunCreate(ok)
    \/ RunPoll
    \/ \E api_ok \in Outcomes, cost_ok \in Outcomes :
          /\ run.pc = "poll"
          /\ PollOne(api_ok, cost_ok)
          /\ UNCHANGED runVars
    \/ \E save_ok \in Outcomes, next_full \in BOOLEAN :
          /\ run.pc = "poll"
          /\ RoundEnd(save_ok, next_full)
          /\ UNCHANGED runVars
    \/ RunRaised
    \/ \E failing \in 0..1 : RunResult(failing)
    \/ RunService

ScoreSpec == ScoreInit /\ [][ScoreNext]_vars

-----------------------------------------------------------------------------
\* BatchManager.retrieve_results called on jobs in any state.

\* the lines of content.strip().split("\n"): a line per result, <<r>> for
\* the JSON text of r, and an empty line <<>> after the k-th for k in blanks
RECURSIVE output_lines(_, _, _)
output_lines(results, blanks, k) ==
    IF k > Len(results) THEN <<>>
    ELSE <<<<results[k]>>>>
            \o (IF k \in blanks THEN <<<<>>>> ELSE <<>>)
            \o output_lines(results, blanks, k + 1)

\* "for line in ...: if line: results.append(json.loads(line))"
RECURSIVE parse_lines(_)
parse_lines(lines) ==
    IF lines = <<>> THEN <<>>
    ELSE (IF Head(lines) # <<>> THEN <<Head(lines)[1]>> ELSE <<>>)
            \o parse_lines(Tail(lines))

\* a retrieve_results without the test of the status
retrieve_results_any_status(job, blanks) ==
    IF ~has_output_file(job)
    THEN [error |-> "no output file", results |-> <<>>]
    ELSE [error |-> "none",
          results |-> parse_lines(output_lines(job.results, blanks, 1))]

\* BatchManager.retrieve_results: the ValueError it raises, or the records
retrieve_results(job, blanks) ==
    IF job.status # "completed"
    THEN [error |-> "not completed", results |-> <<>>]
    ELSE IF ~has_output_file(job)
         THEN [error |-> "no output file", results |-> <<>>]
         ELSE [error |-> "none",
               results |-> parse_lines(output_lines(job.results, blanks, 1))]

RetrieveResults(batch_id, blanks) ==
    LET got == retrieve_results(service[batch_id], blanks)
    IN  /\ ~InCall
        /\ returned' = got.results
        /\ lastOp' = [op |-> "retrieve_results", ok |-> got.error = "none",
                      batch_id |-> batch_id, error |-> got.error]
        /\ UNCHANGED <<trackerVars, service, ledgerVars, damaged, faults, poll>>

\* a batch is created, the service works on it and its results are asked
\* for at any time
FetchNext ==
    /\ UNCHANGED runVars
    /\ \/ \E requests \in RequestLists :
             /\ service = EmptyDict
             /\ CreateBatch(requests,
                            filter_metadata(1, <<TopicA, TopicB>>, 0), TRUE)
       \/ Service
       \/ \E batch_id \in DOMAIN service :
             \E blanks \in SUBSET (1..(Len(service[batch_id].results) - 1)) :
                RetrieveResults(batch_id, blanks)

FetchSpec == ManagerInit /\ [][FetchNext]_vars

-----------------------------------------------------------------------------
\* OutputManager.update_aggregations called over and over.

MaxRanks == 2          \* scored speeches handed to one update

\* the pairs that get aggregated, their members with metadata in the
\* database: two topics of one member and a topic of two members
AggPairs == {<<1, TopicA>>, <<1, TopicB>>, <<2, TopicA>>}

\* stance scores
StanceScores == {1, 2}

\* non-empty lists of scored speeches; update_aggregations reads their Rank
ResultSets ==
    UNION {{[i \in 1..n |-> [Rank |-> ranks[i]]] :
               ranks \in [1..n -> StanceScores]} : n \in 1..MaxRanks}

AggInit == RunInit

Update(person_id, topic, scored_speeches) ==
    /\ client_data' = update_aggregations(client_data, person_id, topic,
                                          scored_speeches)
    /\ lastOp' = Op("update_aggregations", TRUE)
    /\ UNCHANGED <<trackerVars, service, ledgerVars, damaged, faults, poll,
                   returned, run, filtered, filterDone>>

AggNext ==
    \E x \in AggPairs, scored_speeches \in ResultSets :
       Update(x[1], x[2], scored_speeches)

AggSpec == AggInit /\ [][AggNext]_vars

-----------------------------------------------------------------------------
\* OutputManager.update_aggregations called with result sets that may be
\* empty, for a member of the people table and for one it has no row for.

RollupPairs == {<<1, TopicA>>, <<3, TopicA>>, <<3, TopicB>>}

RollupInit == RunInit

RollupUpdate(person_id, topic, scored_speeches) ==
    /\ client_data' = update_aggregations(client_data, person_id, topic,
                                          scored_speeches)
    /\ lastOp' = [op |-> "update_aggregations", ok |-> TRUE,
                  person_id |-> person_id, topic |-> topic,
                  count |-> Len(scored_speeches)]
    /\ UNCHANGED <<trackerVars, service, ledgerVars, damaged, faults, poll,
                   returned, run, filtered, filterDone>>

RollupNext ==
    \E x \in RollupPairs, scored_speeches \in ResultSets \cup {<<>>} :
       RollupUpdate(x[1], x[2], scored_speeches)

RollupSpec == RollupInit /\ [][RollupNext]_vars

-----------------------------------------------------------------------------
\* A filter batch submitted for a list of topics and processed on completion:
\* the topics written into the metadata and read back from it.

MaxName == 3           \* longest topic name, in characters

\* the lines of topics.txt, stripped, that are not empty: names made of
\* letters and commas
TopicNames == UNION {[1..n -> {"A", ","}] : n \in 1..MaxName}

\* list(topics) of the topics of a member, a set
TopicLists ==
    {topics \in SeqsUpTo(TopicNames, MaxPairs) :
        /\ topics # <<>>
        /\ \A i, j \in 1..Len(topics) : i # j => topics[i] # topics[j]}

Coding(pc, topics) == [pc |-> pc, topics |-> topics]

CodecInit ==
    /\ status = EmptyDict
    /\ statusFile = EmptyDict
    /\ damaged = {}
    /\ faults = 0
    /\ lastOp = Op("init", TRUE)
    /\ reported = EmptyDict
    /\ ManagerIdle
    /\ \E topics \in TopicLists : run = Coding("submit", topics)
    /\ filtered = EmptyDict
    /\ client_data = EmptyDict
    /\ filterDone = [mem |-> {}, file |-> {}]

\* _process_person: the batch of the member's speech is created with the
\* topics joined by commas
CodecSubmit ==
    /\ run.pc = "submit"
    /\ create_batch(<<speech_request(1)>>,
                    filter_metadata(1, run.topics, 0), TRUE)
    /\ lastOp' = Op("create_batch", TRUE)
    /\ run' = Coding("submitted", run.topics)
    /\ UNCHANGED <<trackerVars, poll, filtered, client_data, filterDone>>

\* _process_batch_results: person_id and topics are read from the ledger
\* entry of the batch and every topic is marked filter_complete
CodecProcess ==
    /\ run.pc = "submitted"
    /\ LET batch_id == 1
           batch_info == Get(batch_jobs, batch_id, EmptyDict)
           person_id == int(batch_info.person_id)
           topics == split(batch_info.topics, ",")
       IN  /\ status' = mark_topics(status, person_id, topics, Len(topics),
                                    batch_id)
           /\ SaveStatus(status', TRUE)
    /\ lastOp' = Op("process_batch_results", TRUE)
    /\ run' = Coding("processed", run.topics)
    /\ UNCHANGED <<managerVars, filtered, client_data, filterDone>>

CodecNext == CodecSubmit \/ CodecProcess

CodecSpec == CodecInit /\ [][CodecNext]_vars

-----------------------------------------------------------------------------
\* The loop "for i in range(0, len(requests), batch_size)" of _process_person
\* and of _process_pair, for request lists and batch sizes of every length.

MaxSplit == 4          \* longest request list split, and largest batch size

\* a slice that takes one request more than the batch size
slice_one_more(requests, i, batch_size) ==
    SubSeq(requests, i + 1, Min(i + batch_size + 1, Len(requests)))

\* requests[i : i + batch_size]
slice(requests, i, batch_size) ==
    SubSeq(requests, i + 1, Min(i + batch_size, Len(requests)))

\* the requests built by a stage for n speeches
split_requests(phase, n, include_reasoning) ==
    [k \in 1..n |-> IF phase = "filter" THEN speech_request(k)
                    ELSE score_request(k, include_reasoning)]

\* metadata={...} of the create_batch call of the chunk at i
split_metadata(phase, index) ==
    IF phase = "filter" THEN filter_metadata(1, <<TopicA, TopicB>>, index)
    ELSE score_metadata(1, TopicA, index)

Splitting(pc, phase, requests, batch_size, i, batch_ids) ==
    [pc |-> pc, phase |-> phase, requests |-> requests,
     batch_size |-> batch_size, i |-> i, batch_ids |-> batch_ids]

SplitInit ==
    /\ status = EmptyDict
    /\ statusFile = EmptyDict
    /\ damaged = {}
    /\ faults = 0
    /\ lastOp = Op("init", TRUE)
    /\ reported = EmptyDict
    /\ ManagerIdle
    /\ \E phase \in Phases, n \in 0..MaxSplit, batch_size \in 1..MaxSplit,
          include_reasoning \in BOOLEAN :
          run = Splitting("split", phase,
                          split_requests(phase, n, include_reasoning),
                          batch_size, 0, <<>>)
    /\ filtered = EmptyDict
    /\ client_data = EmptyDict
    /\ filterDone = [mem |-> {}, file |-> {}]

\* one iteration of the loop: the chunk at i is submitted
SplitStep ==
    /\ run.pc = "split"
    /\ run.i < Len(run.requests)
    /\ create_batch(slice(run.requests, run.i, run.batch_size),
                    split_metadata(run.phase, run.i \div run.batch_size), TRUE)
    /\ lastOp' = Op("create_batch", TRUE)
    /\ run' = [run EXCEPT !.i = @ + run.batch_size,
                          !.batch_ids = Append(@, NextBatchId)]
    /\ UNCHANGED <<trackerVars, poll, filtered, client_data, filterDone>>

\* the range is exhausted: return batch_ids
SplitReturn ==
    /\ run.pc = "split"
    /\ run.i >= Len(run.requests)
    /\ run' = [run EXCEPT !.pc = "done"]
    /\ lastOp' = Op("return", TRUE)
    /\ UNCHANGED <<trackerVars, managerVars, damaged, faults, filtered,
                   client_data, filterDone>>

SplitNext == SplitStep \/ SplitReturn

SplitSpec == SplitInit /\ [][SplitNext]_vars

-----------------------------------------------------------------------------
\* A filter run and a score run for a member whose requests take two
\* batches, no I/O error occurring.

ChunkInit ==
    /\ status = EmptyDict
    /\ statusFile = EmptyDict
    /\ damaged = {}
    /\ faults = MaxFaults
    /\ lastOp = Op("init", TRUE)
    /\ reported = EmptyDict
    /\ ManagerIdle
    /\ RunIdle

\* `filter` or `score`, once the command before it has returned
ChunkStart(phase) ==
    /\ run.pc \in {"idle", "success"}
    /\ StartRunFor(ChunkPairs, phase, FALSE, 0, TRUE)

ChunkNext ==
    \/ \E phase \in Phases : ChunkStart(phase)
    \/ RunCreate(TRUE)
    \/ RunPoll
    \/ /\ run.pc = "poll"
       /\ PollOne(TRUE, TRUE)
       /\ UNCHANGED runVars
    \/ \E next_full \in BOOLEAN :
          /\ run.pc = "poll"
          /\ RoundEnd(TRUE, next_full)
          /\ UNCHANGED runVars
    \/ RunResult(0)
    \/ RunService

ChunkSpec == ChunkInit /\ [][ChunkNext]_vars

\* `filter` or `score` for a member with one speech and a member with none
QuietStart(phase) ==
    /\ run.pc \in {"idle", "success"}
    /\ StartRunFor(QuietPairs, phase, FALSE, 0, TRUE)

QuietNext ==
    \/ \E phase \in Phases : QuietStart(phase)
    \/ RunCreate(TRUE)
    \/ RunPoll
    \/ /\ run.pc = "poll"
       /\ PollOne(TRUE, TRUE)
       /\ UNCHANGED runVars
    \/ \E next_full \in BOOLEAN :
          /\ run.pc = "poll"
          /\ RoundEnd(TRUE, next_full)
          /\ UNCHANGED runVars
    \/ RunResult(0)
    \/ RunService

QuietSpec == ChunkInit /\ [][QuietNext]_vars

-----------------------------------------------------------------------------
\* _process_batch_results on the results of one batch of several requests.

MaxResults == 2        \* requests in the batch whose results are processed

\* the ledger entry of a batch that was created and polled to `completed`
Tracked(jobs, batch_id, metadata, requests) ==
    track_completed_at(
        track_status(Put(jobs, batch_id,
                         tracked_entry(metadata, requests, batch_id)),
                     batch_id, "completed"),
        batch_id)

Completed(requests, results) ==
    [status |-> "completed", requests |-> requests, results |-> results]

\* poll_batches returned {batch_id: "completed"}
PolledOne(batch_id) ==
    [pc |-> "returned", batch_ids |-> <<batch_id>>, remaining |-> <<>>,
     completed |-> Put(EmptyDict, batch_id, "completed"),
     order |-> <<batch_id>>, todo |-> <<>>, should_full_poll |-> TRUE]

\* the requests a filter batch for the speeches 1..n is made of
FilterRequests(n) == [i \in 1..n |-> speech_request(i)]

\* the requests of the score batch for the same speeches, flags[i] telling
\* whether "random.random() < reasoning_rate" held for the i-th
ScoreRequests(flags) ==
    [i \in 1..Len(flags) |-> score_request(i, flags[i] = 1)]

\* a filter run for both topics of member 1 has created batch 1 and polled
\* it to completion
ProcessFilterInit(n, results) ==
    LET requests == FilterRequests(n)
        topics == <<TopicA, TopicB>>
        job == Completed(requests, results)
        jobs == Tracked(EmptyDict, 1, filter_metadata(1, topics, 0), requests)
    IN  /\ service = Put(EmptyDict, 1, job)
        /\ batch_jobs = jobs
        /\ batch_jobs_file = jobs
        /\ costs = Put(EmptyDict, 1, cost_entry(jobs, 1, job))
        /\ costs_file = costs
        /\ status = EmptyDict
        /\ filtered = EmptyDict
        /\ filterDone = [mem |-> {}, file |-> {}]
        /\ poll = PolledOne(1)
        /\ returned = <<1>>
        /\ run = Frame("poll", 1, "filter", <<>>, <<1>>, 0, FALSE)
        /\ client_data = EmptyDict

\* topic A of member 1 was filtered by batch 1, every speech answered; a
\* score run has created batch 2 for the pair and polled it to completion
ProcessScoreInit(flags, results) ==
    LET n == Len(flags)
        before == FilterRequests(n)
        filter_job == Completed(before,
                                [i \in 1..n |->
                                    [custom_id |-> before[i].custom_id,
                                     kind |-> "ok"]])
        requests == ScoreRequests(flags)
        job == Completed(requests, results)
        jobs1 == Tracked(EmptyDict, 1, filter_metadata(1, <<TopicA>>, 0),
                         before)
        jobs == Tracked(jobs1, 2, score_metadata(1, TopicA, 0), requests)
    IN  /\ service = Put(Put(EmptyDict, 1, filter_job), 2, job)
        /\ batch_jobs = jobs
        /\ batch_jobs_file = jobs
        /\ costs = Put(Put(EmptyDict, 1, cost_entry(jobs1, 1, filter_job)),
                       2, cost_entry(jobs, 2, job))
        /\ costs_file = costs
        /\ status = mark_topics(EmptyDict, 1, <<TopicA>>, 1, 1)
        /\ filtered = save_filtered(EmptyDict, 1, <<TopicA>>,
                                    filtered_rows(answered(filter_job)))
        /\ filterDone = [mem |-> {<<1, TopicA>>}, file |-> {<<1, TopicA>>}]
        /\ poll = PolledOne(2)
        /\ returned = <<2>>
        /\ run = Frame("poll", 1, "score", <<>>, <<2>>, 0, FALSE)
        /\ client_data = EmptyDict

\* the pair was filtered by batch 1 and scored by batch 2, every speech
\* answered and none asked for reasoning; `score --force-reprocess` has reset
\* the pair, created batch 3 for it and polled it to completion
ProcessRescoreInit(flags, results) ==
    LET n == Len(flags)
        before == FilterRequests(n)
        all_ok(reqs) == [i \in 1..Len(reqs) |->
                            [custom_id |-> reqs[i].custom_id, kind |-> "ok"]]
        filter_job == Completed(before, all_ok(before))
        first == ScoreRequests([i \in 1..n |-> 0])
        first_job == Completed(first, all_ok(first))
        requests == ScoreRequests(flags)
        job == Completed(requests, results)
        jobs1 == Tracked(EmptyDict, 1, filter_metadata(1, <<TopicA>>, 0),
                         before)
        jobs2 == Tracked(jobs1, 2, score_metadata(1, TopicA, 0), first)
        jobs == Tracked(jobs2, 3, score_metadata(1, TopicA, 0), requests)
        rows == scored_rows(answered(first_job), TopicA)
    IN  /\ service = Put(Put(Put(EmptyDict, 1, filter_job), 2, first_job),
                         3, job)
        /\ batch_jobs = jobs
        /\ batch_jobs_file = jobs
        /\ costs = Put(Put(Put(EmptyDict, 1, cost_entry(jobs1, 1, filter_job)),
                           2, cost_entry(jobs2, 2, first_job)),
                       3, cost_entry(jobs, 3, job))
        /\ costs_file = costs
        /\ status = reset_pairs(
                        mark_score_complete(
                            mark_topics(EmptyDict, 1, <<TopicA>>, 1, 1),
                            1, TopicA, <<2>>),
                        AllPairs, "score")
        /\ filtered = save_filtered(EmptyDict, 1, <<TopicA>>,
                                    filtered_rows(answered(filter_job)))
        /\ filterDone = [mem |-> {<<1, TopicA>>}, file |-> {<<1, TopicA>>}]
        /\ poll = PolledOne(3)
        /\ returned = <<3>>
        /\ run = Frame("poll", 2, "score", <<>>, <<3>>, 0, FALSE)
        /\ client_data =
              update_aggregations(Put(EmptyDict, <<"csv", 1, TopicA>>, rows),
                                  1, TopicA, rows)

ProcessInit ==
    /\ \E n \in 1..MaxResults :
          \/ \E results \in Answers(FilterRequests(n)) :
                ProcessFilterInit(n, results)
          \/ \E flags \in [1..n -> {0, 1}] :
                \E results \in Answers(ScoreRequests(flags)) :
                   \/ ProcessScoreInit(flags, results)
                   \/ ProcessRescoreInit(flags, results)
    /\ statusFile = status
    /\ reported = status
    /\ damaged = {}
    /\ faults = 0
    /\ lastOp = Op("poll_batches", TRUE)
    /\ failed_speeches = <<>>
    /\ failed_speeches_file = <<>>

\* "for batch_id, status in results.items()" for the one batch
ProcessNext == \E failing \in 0..Len(AllPairs) : RunResult(failing)

ProcessSpec == ProcessInit /\ [][ProcessNext]_vars

-----------------------------------------------------------------------------
(* Properties of the JobTracker, checked under TrackerSpec *)

MarkOps == {"mark_filter_complete", "mark_score_complete"}

\* a pair with no entry is implicitly pending
PhaseOf(st, pair) ==
    IF StateOf(st, pair) = "none" THEN "pending" ELSE StateOf(st, pair)

\* C1: every change of a work item's state made by markComplete is
\* Pending -> FilterComplete or FilterComplete -> ScoreComplete, and every
\* change made by reset is ScoreComplete -> FilterComplete or to Pending.
C1_MonotonicPhases ==
    [][\A pair \in Pairs :
         LET a == PhaseOf(status, pair)
             b == PhaseOf(status', pair)
         IN  (a # b /\ lastOp'.op # "restart") =>
                \/ /\ lastOp'.op \in MarkOps
                   /\ <<a, b>> \in {<<"pending", "filter_complete">>,
                                    <<"filter_complete", "score_complete">>}
                \/ /\ lastOp'.op = "reset_pairs"
                   /\ (<<a, b>> = <<"score_complete", "filter_complete">>
                          \/ b = "pending")]_vars

\* C2: pending(filter, C) is exactly the candidates with no entry or state
\* Pending, and pending(score, C) exactly those with state FilterComplete.
C2_PendingSets ==
    \A all_pairs \in PairLists :
       /\ Range(get_pending_pairs(status, "filter", all_pairs)) =
            {c \in Range(all_pairs) : StateOf(status, c) \in {"none", "pending"}}
       /\ Range(get_pending_pairs(status, "score", all_pairs)) =
            {c \in Range(all_pairs) : StateOf(status, c) = "filter_complete"}

\* a store holding a FilterComplete and a ScoreComplete item
C2_Witness ==
    /\ StateOf(status, <<1, TopicA>>) = "filter_complete"
    /\ StateOf(status, <<1, TopicB>>) = "score_complete"
    /\ get_pending_pairs(status, "filter", <<<<1, TopicA>>, <<1, TopicB>>>>) = <<>>
    /\ get_pending_pairs(status, "score", <<<<1, TopicA>>, <<1, TopicB>>>>)
          = <<<<1, TopicA>>>>

SameEntry(st, st2, key) ==
    /\ key \in DOMAIN st <=> key \in DOMAIN st2
    /\ key \in DOMAIN st => st2[key] = st[key]

ResetPost(st, st2, pairs, phase) ==
    \A pair \in Pairs :
       LET key == make_key(pair[1], pair[2])
       IN  IF pair \notin Range(pairs) THEN SameEntry(st, st2, key)
           ELSE IF phase \in {"filter", "None"}
                THEN StateOf(st2, pair) = "pending"
                ELSE IF StateOf(st, pair) = "score_complete"
                     THEN StateOf(st2, pair) = "filter_complete"
                     ELSE SameEntry(st, st2, key)

\* C6: reset with phase filter or none leaves every listed item Pending;
\* with phase score it moves a listed ScoreComplete item to FilterComplete and
\* leaves every other listed item as it was; unlisted items never change.
C6_ResetFrame ==
    \A pairs \in PairLists, phase \in {"filter", "score", "None"} :
       ResetPost(status, reset_pairs(status, pairs, phase), pairs, phase)

\* a reset for phase score has moved one item back and left a FilterComplete
\* item alone
C6_Witness ==
    /\ lastOp.op = "reset_pairs"
    /\ \E pair \in Pairs :
          /\ StateOf(status, pair) = "filter_complete"
          /\ "score_completed_at" \in DOMAIN status[make_key(pair[1], pair[2])]
    /\ \E pair \in Pairs :
          /\ StateOf(status, pair) = "filter_complete"
          /\ "score_completed_at" \notin DOMAIN status[make_key(pair[1], pair[2])]

-----------------------------------------------------------------------------
(* Properties of submission, checked under SubmitSpec *)

SubmitOps == {"create_batch", "retry_failed_requests"}

\* C7: a batch id returned by submit or retry is, when it is returned, in the
\* persisted batch ledger with status submitted and the request count of the
\* job, and a call that submits creates exactly one job at the service.
C7_ReturnedIdPersisted ==
    /\ [](lastOp.op \in SubmitOps /\ returned # <<>> =>
            LET batch_id == returned[1]
            IN  /\ batch_id \in DOMAIN service
                /\ batch_id \in DOMAIN batch_jobs_file
                /\ batch_jobs_file[batch_id].status = "submitted"
                /\ batch_jobs_file[batch_id].request_count =
                      Len(service[batch_id].requests))
    /\ [][lastOp'.op \in SubmitOps /\ returned' # <<>> =>
            /\ DOMAIN service' = DOMAIN service \cup {returned'[1]}
            /\ returned'[1] \notin DOMAIN service]_vars

\* retry has returned the id of a second job, of two requests
C7_Witness ==
    /\ lastOp.op = "retry_failed_requests"
    /\ returned = <<2>>
    /\ batch_jobs_file[2].request_count = 2
    /\ batch_jobs_file[2].retry_attempt = 1
    /\ batch_jobs_file[1].status = "submitted"

\* C8: at every point of execution, a crash inside submit included, every
\* job that exists at the service has an entry in the persisted batch ledger.
C8_LedgerCoversService ==
    \A batch_id \in DOMAIN service : batch_id \in DOMAIN batch_jobs_file

\* what a retry that returned normally has done
RetryPost(failed_requests, metadata, max_attempts) ==
    LET attempt == Get(metadata, "retry_attempt", 0)
        n == Len(failed_speeches)
    IN  IF attempt >= max_attempts
        THEN /\ Len(failed_speeches') = n + Len(failed_requests)
             /\ SubSeq(failed_speeches', 1, n) = failed_speeches
             /\ \A i \in 1..Len(failed_requests) :
                   failed_speeches'[n + i].request = failed_requests[i]
             /\ failed_speeches_file' = failed_speeches'
             /\ service' = service
             /\ batch_jobs' = batch_jobs
             /\ batch_jobs_file' = batch_jobs_file
             /\ returned' = <<>>
        ELSE /\ Cardinality(DOMAIN service') = Cardinality(DOMAIN service) + 1
             /\ \E batch_id \in DOMAIN service' \ DOMAIN service :
                   /\ service'[batch_id].requests = failed_requests
                   /\ batch_id \in DOMAIN batch_jobs'
                   /\ Get(batch_jobs'[batch_id], "retry_attempt", 0) = attempt + 1
                   /\ returned' = <<batch_id>>
             /\ failed_speeches' = failed_speeches
             /\ failed_speeches_file' = failed_speeches_file

\* C13: a retry whose metadata holds retry_attempt >= max_attempts (0 when
\* absent) appends one dead-letter entry per failed request, persists that
\* ledger, creates no job, leaves the batch ledger alone and returns None;
\* otherwise it submits the failed requests as one new job tracked with
\* retry_attempt one higher, leaves the dead-letter ledger alone and returns
\* the id of the job.
C13_RetrySemantics ==
    [][\A failed_requests \in RequestLists, metadata \in MetaInputs,
          max_attempts \in 0..MaxAttempts :
          (/\ lastOp'.op = "retry_failed_requests"
           /\ lastOp'.ok
           /\ retry_failed_requests(failed_requests, metadata, max_attempts, TRUE))
             => RetryPost(failed_requests, metadata, max_attempts)]_vars

\* a retry has given up on a request after an earlier retry resubmitted
C13_Witness ==
    /\ lastOp.op = "retry_failed_requests"
    /\ lastOp.ok
    /\ returned = <<>>
    /\ Len(failed_speeches_file) = 1
    /\ Get(failed_speeches_file[1].metadata, "retry_attempt", 0) = 1
    /\ \E batch_id \in DOMAIN batch_jobs_file :
          Get(batch_jobs_file[batch_id], "retry_attempt", 0) = 1

\* what the n-th call of a chain that gives up from its k-th call on does
ChainStep(k) ==
    (run'.pc = "retrying" /\ run'.calls = run.calls + 1 /\ lastOp'.ok) =>
       IF run'.calls < k
       THEN /\ returned' # <<>>
            /\ returned'[1] \in DOMAIN service' \ DOMAIN service
            /\ failed_speeches' = failed_speeches
       ELSE /\ returned' = <<>>
            /\ service' = service
            /\ \E failed_requests \in RequestLists :
                  failed_speeches' = failed_speeches
                     \o failed_entries(failed_requests, run.metadata)

\* C14 as stated: with max_attempts = 3 and the metadata carried forward,
\* the first and second calls return a new batch id and the third returns
\* None, with the failed requests appended to the dead-letter ledger.
C14_ThirdCallGivesUp == [][ChainStep(DefaultMaxAttempts)]_vars

\* C14 as amended: with max_attempts = 3 and the metadata carried forward,
\* the first, second and third calls return a new batch id and the fourth
\* returns None, with the failed requests appended to the dead-letter ledger.
C14_FourthCallGivesUp == [][ChainStep(DefaultMaxAttempts + 1)]_vars

\* a chain of four calls has ended with a dead-letter entry after three jobs
C14_Witness ==
    /\ run.pc = "retrying"
    /\ run.calls = DefaultMaxAttempts + 1
    /\ lastOp.op = "retry_failed_requests"
    /\ lastOp.ok
    /\ returned = <<>>
    /\ Cardinality(DOMAIN service) = DefaultMaxAttempts
    /\ Len(failed_speeches_file) = 1
    /\ Get(failed_speeches_file[1].metadata, "retry_attempt", 0)
          = DefaultMaxAttempts

-----------------------------------------------------------------------------
(* Properties of polling, checked under PollSpec *)

StatusIn(jobs, batch_id) ==
    IF batch_id \in DOMAIN jobs THEN jobs[batch_id].status ELSE "none"

\* C9 as stated: the ledger status of a job is submitted from its creation
\* until it becomes completed, failed, expired or cancelled, takes no other
\* value, and does not change once it is one of those.
C9_StrictProgression ==
    [][\A batch_id \in DOMAIN batch_jobs' :
         LET old == StatusIn(batch_jobs, batch_id)
             new == StatusIn(batch_jobs', batch_id)
         IN  /\ old = "none" => new = "submitted"
             /\ new \in {"submitted"} \cup TerminalStatuses
             /\ old \in TerminalStatuses => new = old]_vars

\* C9 as amended: the ledger status of a job is submitted at its creation; a
\* poll replaces it by the status the service reports, terminal or not; once
\* it is completed, failed, expired or cancelled no later poll changes it.
\* The same holds of the persisted ledger, which takes the in-memory values.
C9_MirrorsService ==
    [][/\ \A batch_id \in DOMAIN batch_jobs' :
            LET old == StatusIn(batch_jobs, batch_id)
                new == StatusIn(batch_jobs', batch_id)
            IN  /\ old = "none" => new = "submitted"
                /\ (old # "none" /\ new # old) =>
                      /\ batch_id \in DOMAIN service
                      /\ new = service[batch_id].status
                /\ old \in TerminalStatuses => new = old
       /\ \A batch_id \in DOMAIN batch_jobs_file' :
            LET old == StatusIn(batch_jobs_file, batch_id)
                new == StatusIn(batch_jobs_file', batch_id)
            IN  /\ new # old => new = StatusIn(batch_jobs', batch_id)
                /\ old \in TerminalStatuses => new = old]_vars

\* a job whose ledger status is terminal is polled again, and the persisted
\* ledger holds a status that is neither submitted nor terminal
C9_Witness ==
    /\ poll.pc = "round"
    /\ poll.todo # <<>>
    /\ StatusIn(batch_jobs, Head(poll.todo)) \in TerminalStatuses
    /\ \E batch_id \in DOMAIN batch_jobs_file :
          batch_jobs_file[batch_id].status \in {"validating", "in_progress"}

\* C10: poll_batches returns only with nothing outstanding, its map has an
\* entry for exactly the ids it was given, each a terminal status or
\* "error"; during the loop the outstanding ids and the keys of the map are
\* disjoint and together are the ids given.
C10_PollPartition ==
    /\ poll.pc = "returned" =>
          /\ poll.remaining = <<>>
          /\ DOMAIN poll.completed = Range(poll.batch_ids)
    /\ poll.pc \in {"round", "returned"} =>
          /\ Range(poll.remaining) \cap DOMAIN poll.completed = {}
          /\ Range(poll.remaining) \cup DOMAIN poll.completed
                = Range(poll.batch_ids)
          /\ \A batch_id \in DOMAIN poll.completed :
                poll.completed[batch_id] \in TerminalStatuses \cup {"error"}

\* a poll of two ids has returned, one completed and one in error
C10_Witness ==
    /\ poll.pc = "returned"
    /\ Len(poll.batch_ids) = 2
    /\ \E a, b \in DOMAIN poll.completed :
          /\ poll.completed[a] = "completed"
          /\ poll.completed[b] = "error"

\* C11: no error raised while one id is handled in a poll round ends the
\* poll: the id is recorded as "error" and leaves the outstanding ids, and
\* the round goes on with the others.
C11_ErrorIsolated ==
    [][(poll.pc = "round" /\ poll.todo # <<>> /\ poll' # poll) =>
          /\ poll'.pc = "round"
          /\ \A batch_id \in Range(poll.remaining) \ {Head(poll.todo)} :
                batch_id \in Range(poll'.remaining)]_vars

\* C12: when poll_batches has returned, the persisted ledger holds, for
\* every polled id that has a ledger entry and reached a terminal status at
\* the service, that status and its completed_at.
C12_LedgerPersistedAtReturn ==
    poll.pc = "returned" =>
       \A batch_id \in DOMAIN poll.completed :
          (/\ batch_id \in DOMAIN batch_jobs
           /\ poll.completed[batch_id] \in TerminalStatuses) =>
             /\ batch_id \in DOMAIN batch_jobs_file
             /\ batch_jobs_file[batch_id].status = poll.completed[batch_id]
             /\ "completed_at" \in DOMAIN batch_jobs_file[batch_id]

-----------------------------------------------------------------------------
(* Properties of the stage runs, checked under RunSpec *)

\* the pair a ledger entry of the score stage was submitted for
PairOf(entry) == <<int(entry.person_id), entry.topic>>

\* C3: a pair with no entry is pending for filter and not for score; once
\* it is marked filter_complete it is pending for score and not for filter;
\* and a run creates a score batch for a pair only while the state of the
\* pair, in memory and in the status file, is filter_complete, set by a
\* filter completion that no reset to pending has undone.
C3_PhaseOrdering ==
    /\ [](\A x \in Pairs :
            StateOf(status, x) = "none" =>
               /\ get_pending_pairs(status, "filter", <<x>>) = <<x>>
               /\ get_pending_pairs(status, "score", <<x>>) = <<>>)
    /\ [][\A x \in Pairs :
            (/\ StateOf(status', x) = "filter_complete"
             /\ StateOf(status, x) # "filter_complete") =>
               /\ get_pending_pairs(status', "filter", <<x>>) = <<>>
               /\ get_pending_pairs(status', "score", <<x>>) = <<x>>]_vars
    /\ [][\A batch_id \in DOMAIN service' \ DOMAIN service :
            (/\ batch_id \in DOMAIN batch_jobs'
             /\ batch_jobs'[batch_id].phase = "score") =>
               LET x == PairOf(batch_jobs'[batch_id])
               IN  /\ StateOf(status, x) = "filter_complete"
                   /\ StateOf(statusFile, x) = "filter_complete"
                   /\ x \in filterDone.mem]_vars

\* a score batch has been created for one pair while the other pair, whose
\* filtered csv exists, is not filter_complete and gets none
C3_Witness ==
    /\ run.pc = "submit"
    /\ run.phase = "score"
    /\ run.work = <<>>
    /\ returned # <<>>
    /\ batch_jobs[returned[1]].phase = "score"
    /\ \E x \in Pairs :
          /\ x # PairOf(batch_jobs[returned[1]])
          /\ x \in DOMAIN filtered
          /\ StateOf(status, x) # "filter_complete"

\* C5: a run that ends reporting success has had no write of the status
\* file or of a ledger fail, and every state change it made is in the file.
C5_WriteFailureSurfaces ==
    run.pc = "success" => (~run.write_failed /\ status = statusFile)

\* C16: the filtered csv of a pair never holds two rows with the same
\* speech id, whatever filter runs were made.
C16_NoDuplicateRows ==
    \A key \in DOMAIN filtered :
       \A i, j \in 1..Len(filtered[key]) :
          i # j => filtered[key][i].Id # filtered[key][j].Id

\* the pairs a filter batch was created for
Covered(entry) ==
    {<<int(entry.person_id), topic>> : topic \in Range(split(entry.topics, ","))}

\* C17: in a filter run, when a batch that ended `completed` has been
\* processed without an exception, every pair the batch covers is
\* filter_complete with the id of the batch recorded, in memory and in the
\* status file; when the batch ended failed, expired, cancelled or in
\* error, no work-item state changes and no csv gets a row.
C17_FilterReconciled ==
    [][(/\ run.pc = "poll"
        /\ run.phase = "filter"
        /\ run'.phase = "filter"
        /\ run'.done = run.done + 1) =>
          LET batch_id == poll.order[run.done + 1]
          IN  IF poll.completed[batch_id] = "completed"
              THEN \A x \in Covered(batch_jobs[batch_id]) :
                      /\ StateOf(status', x) = "filter_complete"
                      /\ status'[make_key(x[1], x[2])].filter_batch_job_ids
                            = <<batch_id>>
                      /\ x \in DOMAIN statusFile'
                      /\ statusFile'[x] = status'[x]
              ELSE /\ status' = status
                   /\ statusFile' = statusFile
                   /\ filtered' = filtered]_vars

\* a second filter run has completed both pairs with its batch after the
\* batch of the first run ended without completing
C17_Witness ==
    /\ run.pc = "success"
    /\ run.phase = "filter"
    /\ run.n = 2
    /\ run.done = 1
    /\ 1 \in DOMAIN service
    /\ service[1].status \in {"failed", "expired", "cancelled"}
    /\ \A x \in Pairs :
          /\ StateOf(statusFile, x) = "filter_complete"
          /\ statusFile[x].filter_batch_job_ids = <<2>>

\* the batches of the ledger that score the pair x
ScoreBatches(x) ==
    {batch_id \in DOMAIN batch_jobs :
        /\ batch_jobs[batch_id].phase = "score"
        /\ int(batch_jobs[batch_id].person_id) = x[1]
        /\ batch_jobs[batch_id].topic = x[2]}

\* the final artifacts of the pair x: its scored csv, its entry in the
\* Topics list of the member and the member's entry in the topic file
Artifacts(x) ==
    {key \in DOMAIN client_data :
        \/ key = <<"csv", x[1], x[2]>>
        \/ /\ key = <<"main.json", x[1]>>
           /\ \E i \in 1..Len(client_data[key]) :
                 client_data[key][i].topicName = x[2]
        \/ /\ key = <<"topics", x[2]>>
           /\ str(x[1]) \in DOMAIN client_data[key]}

\* C20: in a score run, a pending pair whose filtered csv is absent or has
\* no rows gets no batch, stays filter_complete in memory and in the status
\* file and gets no final csv and no aggregate entry; once the run polls,
\* every pending pair whose csv has rows has its batch.
C20_EmptyPairSkipped ==
    run.pc # "idle" =>
       \A x \in Range(AllPairs) :
          IF Get(filtered, x, <<>>) = <<>>
          THEN /\ ScoreBatches(x) = {}
               /\ \A i \in 1..Len(run.work) :
                     run.work[i].metadata.topic # x[2]
               /\ StateOf(status, x) = "filter_complete"
               /\ StateOf(statusFile, x) = "filter_complete"
               /\ Artifacts(x) = {}
          ELSE run.pc \in {"poll", "success"} => ScoreBatches(x) # {}

\* the run ended with the second pair scored and the first, which has no
\* csv, left as it was
C20_Witness ==
    /\ run.pc = "success"
    /\ run.phase = "score"
    /\ Get(filtered, AllPairs[1], <<>>) = <<>>
    /\ StateOf(statusFile, AllPairs[1]) = "filter_complete"
    /\ StateOf(statusFile, AllPairs[2]) = "score_complete"
    /\ <<"csv", AllPairs[2][1], AllPairs[2][2]>> \in DOMAIN client_data

\* the batch whose results the run processes
Processed == service[poll.order[1]]

\* what the request with this custom_id was answered with
KindOf(job, custom_id) ==
    LET i == CHOOSE j \in 1..Len(job.results) :
                job.results[j].custom_id = custom_id
    IN  job.results[i].kind

\* the speeches of the batch whose request got an answer that yields a row;
\* the i-th request was built from speech i
Yielding(job) ==
    {i \in 1..Len(job.requests) :
        KindOf(job, job.requests[i].custom_id) = "ok"}

\* C19: whatever the order of the results of a batch, the rows written for
\* a work item are those of the speeches whose own request was answered
\* with a usable result, each with the speech id, and in the score phase
\* the reasoning flag, its request was built from.  A score batch that
\* yields no row writes no csv, so there the rows are compared when the
\* batch yields one.
C19_CorrelatedByCustomId ==
    (/\ run.pc # "poll"
     /\ has_output_file(Processed)
     /\ ~unparsable(Processed)) =>
       IF run.phase = "filter"
       THEN \A x \in Covered(batch_jobs[poll.order[1]]) :
               Range(Get(filtered, x, <<>>))
                  = {[Id |-> str(i)] : i \in Yielding(Processed)}
       ELSE Yielding(Processed) # {} =>
            Range(Get(client_data, <<"csv", 1, TopicA>>, <<>>))
               = {[Id |-> i, Topic |-> TopicA, Rank |-> OkRank,
                   Reasoning |-> Processed.requests[i]
                                    = score_request(i, TRUE)] :
                     i \in Yielding(Processed)}

\* a score batch of two requests, only the second asking for reasoning,
\* whose results came back in the other order, the first request's answer
\* not parsing: the csv has the one row of speech 2 with its flag
C19_Witness ==
    /\ run.pc = "success"
    /\ run.phase = "score"
    /\ Processed.requests = <<score_request(1, FALSE), score_request(2, TRUE)>>
    /\ Processed.results
          = <<[custom_id |-> score_request(2, TRUE).custom_id, kind |-> "ok"],
              [custom_id |-> score_request(1, FALSE).custom_id,
               kind |-> "bad_json"]>>
    /\ client_data[<<"csv", 1, TopicA>>]
          = <<[Id |-> 2, Topic |-> TopicA, Rank |-> OkRank,
               Reasoning |-> TRUE]>>

\* the requests of the batch whose result has a status code other than 200
Failed(job) ==
    {i \in 1..Len(job.requests) :
        KindOf(job, job.requests[i].custom_id) = "http_error"}

\* a later batch carries the request again
Resubmitted(request) ==
    \E batch_id \in DOMAIN service :
       /\ batch_id > poll.order[1]
       /\ request \in Range(service[batch_id].requests)

\* the failed-request ledger on disk has the request
DeadLettered(request) ==
    \E k \in 1..Len(failed_speeches_file) :
       failed_speeches_file[k].request = request

\* C15: when the run that processed a completed batch has ended, every
\* request of the batch whose result has a non-success status code is in a
\* later batch or in the failed-request ledger.
C15_FailedRequestsReconciled ==
    (/\ run.pc = "success"
     /\ has_output_file(Processed)
     /\ ~unparsable(Processed)) =>
       \A i \in Failed(Processed) :
          \/ Resubmitted(Processed.requests[i])
          \/ DeadLettered(Processed.requests[i])

\* C18: when a completed batch that has results was processed and no write
\* failed, the work items of the batch are marked complete and the rows of
\* the well-formed results are written, whatever the other results
\* contain.
C18_MalformedResultSkipped ==
    (/\ run.pc # "poll"
     /\ faults = 0
     /\ has_output_file(Processed)) =>
       IF run.phase = "filter"
       THEN \A x \in Covered(batch_jobs[poll.order[1]]) :
               /\ StateOf(status, x) = "filter_complete"
               /\ Range(Get(filtered, x, <<>>))
                     = {[Id |-> str(i)] : i \in Yielding(Processed)}
       ELSE /\ StateOf(status, <<1, TopicA>>) = "score_complete"
            /\ {row.Id : row \in Range(Get(client_data, <<"csv", 1, TopicA>>,
                                          <<>>))}
                  = Yielding(Processed)

\* the rows the processed score batch assembles
Assembled == scored_rows(answered(Processed), TopicA)

\* C21: when a completed score batch was processed, the pair is
\* score_complete with the id of the batch only if its final csv was
\* written and holds exactly the assembled result set, earlier content
\* gone; and when marking the pair failed, nothing was aggregated.
C21_WriteMarkAggregate ==
    (/\ run.phase = "score"
     /\ run.pc # "poll"
     /\ StateOf(status, <<1, TopicA>>) = "score_complete"
     /\ status[<<1, TopicA>>].score_batch_job_ids = <<poll.order[1]>>) =>
       /\ <<"csv", 1, TopicA>> \in DOMAIN client_data
       /\ client_data[<<"csv", 1, TopicA>>] = Assembled
       /\ (run.write_failed /\ poll.order[1] = 2) =>
             Artifacts(<<1, TopicA>>) \subseteq {<<"csv", 1, TopicA>>}

\* the score batches of the run for the pair x, all of them processed
ScoreChunks(x) ==
    {batch_id \in Range(run.all_batch_ids) : batch_id \in ScoreBatches(x)}

\* the speeches of the pair that the batches of the run scored
ScoredBy(batch_ids) ==
    UNION {{custom_id[2] : custom_id \in Range(answered(service[batch_id]))} :
              batch_id \in batch_ids}

\* C22: when a score run has processed every chunk batch of a pair, all of
\* them completed and parsed, the final csv holds the rows of all the
\* batches and the count stored in the member's document and in the topic
\* document is their number.
C22_AggregateOverAllChunks ==
    \A x \in Range(ChunkPairs) :
       (/\ run.pc = "success"
        /\ run.phase = "score"
        /\ ScoreChunks(x) # {}
        /\ \A batch_id \in ScoreChunks(x) :
              /\ poll.completed[batch_id] = "completed"
              /\ has_output_file(service[batch_id])
              /\ ~unparsable(service[batch_id])
        /\ ScoredBy(ScoreChunks(x)) # {}) =>
          LET count == Cardinality(ScoredBy(ScoreChunks(x)))
              csv == Get(client_data, <<"csv", x[1], x[2]>>, <<>>)
              main == Get(client_data, <<"main.json", x[1]>>, <<>>)
              doc == Get(client_data, <<"topics", x[2]>>, EmptyDict)
          IN  /\ {row.Id : row \in Range(csv)} = ScoredBy(ScoreChunks(x))
              /\ \E i \in 1..Len(main) :
                    main[i].topicName = x[2] /\ main[i].count = count
              /\ Get(doc, str(x[1]), <<0>>)[1] = count

\* the batches of the run that cover the pair x in the phase of the run
ChunksOf(x) ==
    {batch_id \in Range(run.all_batch_ids) :
        IF run.phase = "filter"
        THEN x \in Covered(batch_jobs[batch_id])
        ELSE batch_id \in ScoreBatches(x)}

\* C26: when a run has processed every chunk batch of a pair, all of them
\* completed and parsed, the entry of the pair lists the id of every one of
\* them under the phase of the run.
C26_AllChunkIdsRecorded ==
    \A x \in Range(ChunkPairs) :
       (/\ run.pc = "success"
        /\ ChunksOf(x) # {}
        /\ \A batch_id \in ChunksOf(x) :
              /\ poll.completed[batch_id] = "completed"
              /\ has_output_file(service[batch_id])
              /\ ~unparsable(service[batch_id])) =>
          /\ x \in DOMAIN statusFile
          /\ ChunksOf(x) \subseteq
                Range(IF run.phase = "filter"
                      THEN statusFile[x].filter_batch_job_ids
                      ELSE statusFile[x].score_batch_job_ids)

\* C23: whatever the aggregate documents hold, a second update with the
\* same member, topic and non-empty result set changes nothing the first
\* left: same count and average, no second entry of the topic.
C23_UpdateIdempotent ==
    \A x \in AggPairs, R \in ResultSets :
       LET once == update_aggregations(client_data, x[1], x[2], R)
       IN  update_aggregations(once, x[1], x[2], R) = once

\* both topics of member 1 were aggregated, and the update with the result
\* set last aggregated for topic A is applied to no effect
C23_Witness ==
    /\ lastOp.op = "update_aggregations"
    /\ <<"main.json", 1>> \in DOMAIN client_data
    /\ Len(client_data[<<"main.json", 1>>]) = 2
    /\ \E R \in ResultSets :
          /\ Len(R) = MaxRanks
          /\ update_aggregations(client_data, 1, TopicA, R) = client_data

\* the stats the member's document holds for the topic
EntityStats(data, person_id, topic) ==
    LET topics == Get(data, <<"main.json", person_id>>, <<>>)
    IN  [i \in {j \in 1..Len(topics) : topics[j].topicName = topic} |->
            <<topics[i].count, topics[i].average>>]

\* the stats the topic document holds for the member
TopicStats(data, person_id, topic) ==
    Get(Get(data, <<"topics", topic>>, EmptyDict), str(person_id), <<>>)

Abs(n) == IF n < 0 THEN -n ELSE n

\* average, in hundredths, is the mean of the ranks rounded to two places
IsMeanOf(average, R) ==
    2 * Abs(100 * Sum([i \in 1..Len(R) |-> R[i].Rank]) - average * Len(R))
       <= Len(R)

LiveFilterBatches(x) ==
    {batch_id \in DOMAIN batch_jobs :
        /\ batch_jobs[batch_id].phase = "filter"
        /\ x \in Covered(batch_jobs[batch_id])
        /\ service[batch_id].status \notin {"failed", "expired", "cancelled"}}

\* C25: a pair that was never reset, and never marked, has at most one
\* filter batch submitted for it that is under way or completed, whether
\* or not the run that submitted it got to process its results.
C25_NoSecondSubmission ==
    \A x \in Range(AllPairs) :
       (x \notin DOMAIN status /\ x \notin DOMAIN statusFile) =>
          Cardinality(LiveFilterBatches(x)) <= 1

\* C27: retrieve_results of a job that is not `completed` raises "not
\* completed", of a completed job without output file raises "no output
\* file", in both cases with no record returned; of any other job it
\* returns the records of the output in their order, one per non-empty
\* line; and it never changes a ledger or a work-item entry.
C27_RetrieveResults ==
    [][(/\ lastOp'.op = "retrieve_results"
        /\ <<lastOp, returned>>' # <<lastOp, returned>>) =>
          LET job == service[lastOp'.batch_id]
          IN  /\ UNCHANGED <<trackerVars, ledgerVars, service>>
              /\ IF job.status # "completed"
                 THEN lastOp'.error = "not completed" /\ returned' = <<>>
                 ELSE IF \A i \in 1..Len(job.results) :
                            job.results[i].kind = "http_error"
                      THEN lastOp'.error = "no output file" /\ returned' = <<>>
                      ELSE lastOp'.ok /\ returned' = job.results]_vars

\* the records of a completed batch of MaxRequests requests were returned
C27_Witness ==
    /\ lastOp.op = "retrieve_results"
    /\ lastOp.ok
    /\ Len(returned) = MaxRequests
    /\ returned = service[lastOp.batch_id].results

IsPrefix(s, t) == Len(s) <= Len(t) /\ SubSeq(t, 1, Len(s)) = s

C29_RemovedAndWrittenOnce ==
    [][(InCall /\ poll.todo # <<>> /\ poll' # poll) =>
          LET batch_id == Head(poll.todo)
          IN  /\ poll'.pc # "raised"
              /\ batch_id \in DOMAIN costs' \ DOMAIN costs =>
                    Get(poll'.completed, batch_id, "none") # "error"]_vars

\* C30: when poll_batches has returned, every id it polled that had no cost
\* entry when the call started has one, in memory and in costs.json, exactly
\* if its value in the returned map is `completed`.
C30_CostIffCompleted ==
    (poll.pc = "returned" /\ lastOp.op = "poll_batches") =>
       \A batch_id \in Range(poll.batch_ids) \ lastOp.had_cost :
          /\ batch_id \in DOMAIN costs <=> poll.completed[batch_id] = "completed"
          /\ batch_id \in DOMAIN costs_file <=>
                poll.completed[batch_id] = "completed"

\* a call has returned `completed` for one id, which got its cost entry, and
\* another status for a second id, which has none
C30_Witness ==
    /\ poll.pc = "returned"
    /\ lastOp.op = "poll_batches"
    /\ lastOp.had_cost = {}
    /\ \E b, c \in Range(poll.batch_ids) :
          /\ poll.completed[b] = "completed"
          /\ b \in DOMAIN costs_file
          /\ poll.completed[c] \in {"failed", "expired", "cancelled", "error"}
          /\ c \notin DOMAIN costs

\* C31: a call of poll_batches under way returns in the end, with nothing
\* left outstanding; and it has not returned before every id it was given
\* was reported in a terminal status, which is then the id's value, or the
\* status call raised for it.
C31_PollTerminates ==
    /\ [](poll.pc = "returned" =>
            /\ poll.remaining = <<>>
            /\ \A batch_id \in Range(poll.batch_ids) :
                  /\ batch_id \in DOMAIN poll.completed
                  /\ \/ poll.completed[batch_id] = "error"
                     \/ /\ poll.completed[batch_id] \in TerminalStatuses
                        /\ service[batch_id].status = poll.completed[batch_id])
    /\ (InCall ~> poll.pc = "returned")

\* a call for two jobs has returned, one of them completed
C31_Witness ==
    /\ poll.pc = "returned"
    /\ Len(poll.batch_ids) = 2
    /\ poll.completed[1] = "completed"
    /\ poll.completed[2] \in {"expired", "error"}

\* C32: in a chain of retry calls under max_attempts with the metadata
\* carried forward, at most max_attempts calls create a job, retry_attempt
\* never exceeds max_attempts, and every call after max_attempts calls
\* creates no job, returns None and appends its requests to the
\* failed-request ledger.
C32_RetriesBounded ==
    [][(run.pc = "chain" /\ run'.pc = "chain") =>
          /\ run'.created <= run'.max_attempts
          /\ Get(run'.metadata, "retry_attempt", 0) <= run'.max_attempts
          /\ (run'.calls = run.calls + 1 /\ run.calls >= run.max_attempts) =>
                /\ service' = service
                /\ returned' = <<>>
                /\ \E failed_requests \in RequestLists :
                      failed_speeches' = failed_speeches
                         \o failed_entries(failed_requests, run.metadata)]_vars

\* a chain under max_attempts = 1 has created one job and given up after
C32_Witness ==
    /\ run.pc = "chain"
    /\ run.max_attempts = 1
    /\ run.calls = 2
    /\ run.created = 1
    /\ returned = <<>>
    /\ Len(failed_speeches) = 1
    /\ Get(failed_speeches[1].metadata, "retry_attempt", 0) = 1

RECURSIVE Concat(_)
Concat(lists) ==
    IF lists = <<>> THEN <<>> ELSE Head(lists) \o Concat(Tail(lists))

\* the request lists of the batches submitted by the loop, in chunk order
Submitted == [k \in 1..Len(run.batch_ids) |-> service[run.batch_ids[k]].requests]

\* C33: the loop submits the request list in chunks: every chunk is
\* non-empty, has at most batch_size requests and carries its index; the
\* chunks put together in order are the part of the list behind i, and when
\* the loop has returned they are the whole list, in ceil(n / batch_size)
\* batches, none for an empty list.
C33_ChunksPartition ==
    run.pc \in {"split", "done"} =>
       LET n == Len(run.requests)
           m == run.batch_size
       IN  /\ DOMAIN service = Range(run.batch_ids)
           /\ \A k \in 1..Len(Submitted) :
                 /\ Submitted[k] # <<>>
                 /\ Len(Submitted[k]) <= m
                 /\ batch_jobs[run.batch_ids[k]].batch_index = str(k - 1)
           /\ Concat(Submitted) = SubSeq(run.requests, 1, Min(run.i, n))
           /\ run.pc = "done" =>
                 /\ Concat(Submitted) = run.requests
                 /\ Len(Submitted) = (n + m - 1) \div m
                 /\ Submitted = chunks(run.requests, m)

\* four requests were submitted in two batches of three and of one
C33_Witness ==
    /\ run.pc = "done"
    /\ Len(run.requests) = 4
    /\ run.batch_size = 3
    /\ Len(Submitted) = 2
    /\ Len(Submitted[2]) = 1

\* C34: an update with an empty result set changes no aggregate document
\* and creates none.
C34_EmptyUpdateIsNoOp ==
    [][(lastOp'.op = "update_aggregations" /\ lastOp'.count = 0) =>
          client_data' = client_data]_vars

\* the update of member 1 and topic A with no result, when neither the
\* member's document nor the topic's exists and the other topic's does
C34_Witness ==
    /\ lastOp.op = "update_aggregations"
    /\ lastOp.count = 0
    /\ lastOp.person_id = 1
    /\ lastOp.topic = TopicA
    /\ <<"main.json", 1>> \notin DOMAIN client_data
    /\ <<"topics", TopicA>> \notin DOMAIN client_data
    /\ <<"topics", TopicB>> \in DOMAIN client_data

\* C38: the member's document lists the topic with (count, average) exactly
\* if the topic's document maps the member to the same (count, average).
C38_RollupsConsistent ==
    \A x \in RollupPairs :
       LET here == EntityStats(client_data, x[1], x[2])
           there == TopicStats(client_data, x[1], x[2])
       IN  {here[i] : i \in DOMAIN here} = IF there = <<>> THEN {} ELSE {there}

\* C35: when a run has ended and the entry of a pair is in the completed
\* state of the run's phase by a batch of this run, every chunk batch the
\* run submitted for the pair was returned as `completed`.
C35_CompleteOnlyIfAllChunks ==
    \A x \in Range(ChunkPairs) :
       (/\ run.pc = "success"
        /\ x \in DOMAIN statusFile
        /\ statusFile[x].status =
              (IF run.phase = "filter" THEN "filter_complete"
               ELSE "score_complete")
        /\ ChunksOf(x) \cap
              Range(Get(statusFile[x],
                        IF run.phase = "filter" THEN "filter_batch_job_ids"
                        ELSE "score_batch_job_ids", <<>>)) # {}) =>
          \A batch_id \in ChunksOf(x) : poll.completed[batch_id] = "completed"

\* the service completed every batch of the run with an answer that can be
\* used for every request
AllAnswered ==
    \A batch_id \in Range(run.all_batch_ids) :
       /\ service[batch_id].status = "completed"
       /\ \A i \in 1..Len(service[batch_id].results) :
             service[batch_id].results[i].kind = "ok"

\* C36: when the first filter run, for which every pair is pending, has
\* ended and the service has completed every batch with a valid answer for
\* every request, every pair is filter_complete, the pairs of a member
\* without a speech included.
C36_FilterCompletesPending ==
    (/\ run.pc = "success"
     /\ run.phase = "filter"
     /\ run.n = 1
     /\ AllAnswered) =>
       \A x \in Range(QuietPairs) :
          /\ x \in DOMAIN statusFile
          /\ statusFile[x].status = "filter_complete"

\* C37: when the status file has the pair score_complete by the batch that
\* was processed, the final csv of the pair exists and holds the result set
\* assembled from that batch, and the member's document and the topic's
\* document hold the count of that result set.
C37_CompleteHasArtifactAndAggregate ==
    (/\ run.phase = "score"
     /\ run.pc # "poll"
     /\ StateOf(statusFile, <<1, TopicA>>) = "score_complete"
     /\ statusFile[<<1, TopicA>>].score_batch_job_ids = <<poll.order[1]>>) =>
       LET here == EntityStats(client_data, 1, TopicA)
           there == TopicStats(client_data, 1, TopicA)
       IN  /\ Get(client_data, <<"csv", 1, TopicA>>, <<>>) = Assembled
           /\ Assembled # <<>>
           /\ {here[i][1] : i \in DOMAIN here} = {Len(Assembled)}
           /\ there # <<>>
           /\ there[1] = Len(Assembled)

\* C39: when the batch submitted for a list of topics was processed, the
\* topics read from its metadata are the list submitted, and the pairs
\* marked are those of the member with the topics submitted, no other.
C39_TopicsRoundTrip ==
    run.pc = "processed" =>
       /\ split(batch_jobs[1].topics, ",") = run.topics
       /\ DOMAIN statusFile = {make_key(1, run.topics[i]) :
                                  i \in 1..Len(run.topics)}

=============================================================================
